---- MODULE Spec2Model ----
(***************************************************************************)
(* Model of the Z-Image API proxy (apps/api/src/app.ts), its HuggingFace   *)
(* provider (apps/api/src/providers/huggingface.ts) and the event-stream   *)
(* result extractor both of them carry.                                    *)
(*                                                                         *)
(* JavaScript strings are TLA+ strings; Len, SubSeq and \o act on them as  *)
(* length, slice and concatenation.                                        *)
(***************************************************************************)
EXTENDS Integers, Sequences, FiniteSets, TLC

(***************************************************************************)
(* Bounds of the model.                                                    *)
(***************************************************************************)
\* Longest event stream, in lines, given to the extractor.
MaxLines == 4

(***************************************************************************)
(* String primitives of the JavaScript runtime, as the source uses them.   *)
(***************************************************************************)
Min(a, b) == IF a <= b THEN a ELSE b

\* s.charAt(i - 1): the character at the 1-based position i.
CharAt(s, i) == SubSeq(s, i, i)

\* What String.prototype.trim removes at both ends.
WhiteSpace == {" ", "\t", "\r", "\n"}

\* s.startsWith(p)
StartsWith(s, p) == Len(s) >= Len(p) /\ SubSeq(s, 1, Len(p)) = p

\* s.substring(from)
SubstringFrom(s, from) == SubSeq(s, from + 1, Len(s))

\* s.substring(from, to), 0 <= from <= to
Substring(s, from, to) == SubSeq(s, Min(from, Len(s)) + 1, Min(to, Len(s)))

\* s.trim()
Trim(s) ==
  LET ink == {i \in 1..Len(s) : CharAt(s, i) \notin WhiteSpace}
  IN  IF ink = {} THEN ""
      ELSE SubSeq(s, CHOOSE i \in ink : \A j \in ink : i <= j,
                     CHOOSE i \in ink : \A j \in ink : j <= i)

\* s.split('\n'): the pieces between the line feeds, empty pieces included.
Split(s) ==
  LET nl    == {i \in 1..Len(s) : CharAt(s, i) = "\n"}
      n     == Cardinality(nl)
      at(k) == IF k = 0 THEN 0
               ELSE IF k = n + 1 THEN Len(s) + 1
               ELSE CHOOSE p \in nl : Cardinality({q \in nl : q < p}) = k - 1
  IN  [k \in 1..(n + 1) |-> SubSeq(s, at(k - 1) + 1, at(k) - 1)]

(***************************************************************************)
(* JSON values, tagged: what JSON.parse yields and JSON.stringify reads.   *)
(***************************************************************************)
JNull   == [t |-> "null", v |-> 0]
JUndef  == [t |-> "undefined", v |-> 0]
JNum(n) == [t |-> "num", v |-> n]
JStr(s) == [t |-> "str", v |-> s]
JArr(a) == [t |-> "arr", v |-> a]
JObj(f) == [t |-> "obj", v |-> f]
JBool(b) == [t |-> "bool", v |-> b]
\* A number with a fraction, kept as its text.
JFloat(text) == [t |-> "float", v |-> text]

ImgUrl == "https://x/y.png"

\* The JSON texts of the model with the value each decodes to. The first
\* text of a value is the one JSON.stringify writes for it.
JsonTable ==
  << <<"[{\"url\":\"https://x/y.png\"},42]",
       JArr(<<JObj([url |-> JStr(ImgUrl)]), JNum(42)>>)>>,
     <<"[{\"url\": \"https://x/y.png\"}, 42]",
       JArr(<<JObj([url |-> JStr(ImgUrl)]), JNum(42)>>)>>,
     <<"[{\"url\":\"https://x/y.png\"}]",
       JArr(<<JObj([url |-> JStr(ImgUrl)])>>)>>,
     <<"[{\"url\":\"https://x/y.png\"},\"s\"]",
       JArr(<<JObj([url |-> JStr(ImgUrl)]), JStr("s")>>)>>,
     <<"[{\"url\":\"\"},42]",
       JArr(<<JObj([url |-> JStr("")]), JNum(42)>>)>>,
     <<"[{}]", JArr(<<JObj(<<>>)>>)>>,
     <<"[null]", JArr(<<JNull>>)>>,
     <<"[]", JArr(<<>>)>>,
     <<"null", JNull>>,
     <<"0", JNum(0)>>,
     <<"\"plain\"", JStr("plain")>>,
     <<"{}", JObj(<<>>)>>,
     <<"{\"error\":\"X\"}", JObj([error |-> JStr("X")])>>,
     <<"{\"error\":\"\"}", JObj([error |-> JStr("")])>>,
     <<"{\"error\":\"quota exceeded\"}", JObj([error |-> JStr("quota exceeded")])>>,
     <<"{\"message\":\"M\"}", JObj([message |-> JStr("M")])>>,
     <<"{\"error\":\"X\",\"message\":\"M\"}",
       JObj([error |-> JStr("X"), message |-> JStr("M")])>>,
     <<"{\"error\":\"\",\"message\":\"M\"}",
       JObj([error |-> JStr(""), message |-> JStr("M")])>>,
     <<"{\"error\":null,\"message\":\"M\"}",
       JObj([error |-> JNull, message |-> JStr("M")])>>,
     <<"{\"error\":0}", JObj([error |-> JNum(0)])>>,
     <<"{\"error\":7}", JObj([error |-> JNum(7)])>> >>

JsonTexts == {JsonTable[i][1] : i \in DOMAIN JsonTable}

\* JSON.parse(text): the decoded value, or a SyntaxError.
JSONParse(text) ==
  IF text \in JsonTexts
  THEN [ok |-> TRUE,
        value |-> JsonTable[CHOOSE i \in DOMAIN JsonTable : JsonTable[i][1] = text][2]]
  ELSE [ok |-> FALSE, value |-> JUndef]

\* JSON.stringify(value)
JSONStringify(value) ==
  LET is == {i \in DOMAIN JsonTable : JsonTable[i][2] = value}
  IN  JsonTable[CHOOSE i \in is : \A j \in is : i <= j][1]

\* value?.[name]: a property read with optional chaining.
Field(value, name) ==
  IF value.t = "obj" /\ name \in DOMAIN value.v THEN value.v[name] ELSE JUndef

\* Whether a value counts as true in a condition (||, !, if).
Truthy(value) ==
  CASE value.t \in {"null", "undefined"} -> FALSE
    [] value.t = "str" -> value.v # ""
    [] value.t = "num" -> value.v # 0
    [] value.t = "bool" -> value.v
    [] OTHER -> TRUE

\* The decimal digits of a natural number.
RECURSIVE Digits(_)
Digits(n) ==
  IF n < 10 THEN CharAt("0123456789", n + 1)
  ELSE Digits(n \div 10) \o CharAt("0123456789", (n % 10) + 1)

\* String(value), which new Error(value) applies to its message.
JsString(value) ==
  CASE value.t = "str" -> value.v
    [] value.t = "num" -> Digits(value.v)
    [] value.t = "null" -> "null"
    [] value.t = "undefined" -> "undefined"
    [] value.t = "bool" -> IF value.v THEN "true" ELSE "false"
    [] value.t = "obj" -> "[object Object]"
    [] OTHER -> ""

\* a || b
OrElse(a, b) == IF Truthy(a) THEN a ELSE b

(***************************************************************************)
(* The event-stream result extractor.                                      *)
(***************************************************************************)
Returned(value) ==
  [kind |-> "return", value |-> value, err |-> "", message |-> ""]

Thrown(err, message) ==
  [kind |-> "throw", value |-> JUndef, err |-> err, message |-> message]

\* The message of the SyntaxError JSON.parse throws (the engine's wording).
SyntaxErrorMessage == "Unexpected token in JSON"

\* A bug ErrorEventOutcome could have: the data text is thrown undecoded.
ErrorEventOutcomeRaw(jsonData) ==
  Thrown("Error", IF jsonData # "" THEN jsonData ELSE "Unknown SSE error")

\* A bug ErrorMessageOf could have: the message field is looked at first.
ErrorMessageOfMessageFirst(errorData) ==
  OrElse(Field(errorData, "message"),
    OrElse(Field(errorData, "error"),
      OrElse(JStr(JSONStringify(errorData)), JStr("Unknown error"))))

\* errorData?.error || errorData?.message || JSON.stringify(errorData) || 'Unknown error'
ErrorMessageOf(errorData) ==
  OrElse(Field(errorData, "error"),
    OrElse(Field(errorData, "message"),
      OrElse(JStr(JSONStringify(errorData)), JStr("Unknown error"))))

\* A bug UndecodableMessage could have: the data text is dropped.
UndecodableMessageGeneric(jsonData) == "Unknown SSE error"

\* jsonData || 'Unknown SSE error'
UndecodableMessage(jsonData) == IF jsonData # "" THEN jsonData ELSE "Unknown SSE error"

\* The error an `error` event's data line raises.
ErrorEventOutcome(jsonData) ==
  LET parsed    == JSONParse(jsonData)
      errorData == parsed.value
      errorMsg  == ErrorMessageOf(errorData)
  IN  IF parsed.ok
      THEN Thrown("Error", JsString(errorMsg))
      ELSE Thrown("Error", UndecodableMessage(jsonData))

\* How many characters of the raw stream the "no terminal event" error quotes.
RawPrefixLen == 300

\* A bug UnexpectedResponse could have: the whole stream is quoted.
UnexpectedResponseUnbounded(sseStream) ==
  Thrown("Error", "Unexpected SSE response: " \o sseStream)

\* The error raised when the scan ends without a terminal event.
UnexpectedResponse(sseStream) ==
  Thrown("Error", "Unexpected SSE response: " \o Substring(sseStream, 0, RawPrefixLen))

\* A bug EventName could have: the name keeps the blank after the colon.
EventNameUntrimmed(line) == SubstringFrom(line, 6)

\* The event name an `event:` line declares.
EventName(line) == Trim(SubstringFrom(line, 6))

\* The data text of a `data:` line.
DataText(line) == Trim(SubstringFrom(line, 5))

\* The loop over the lines, from line i on, with the event name declared
\* so far.
RECURSIVE ScanLines(_, _, _, _)
ScanLines(sseStream, lines, i, currentEvent) ==
  IF i > Len(lines) THEN UnexpectedResponse(sseStream)
  ELSE
    LET line == lines[i] IN
    IF StartsWith(line, "event:")
    THEN ScanLines(sseStream, lines, i + 1, EventName(line))
    ELSE IF StartsWith(line, "data:")
    THEN LET jsonData == DataText(line) IN
         IF currentEvent = "complete"
         THEN LET parsed == JSONParse(jsonData) IN
              IF parsed.ok THEN Returned(parsed.value)
              ELSE Thrown("SyntaxError", SyntaxErrorMessage)
         ELSE IF currentEvent = "error"
         THEN ErrorEventOutcome(jsonData)
         ELSE ScanLines(sseStream, lines, i + 1, currentEvent)
    ELSE ScanLines(sseStream, lines, i + 1, currentEvent)

\* A bug extractCompleteEventData could have: data lines before any event
\* declaration are taken for the result.
extractAssumingComplete(sseStream) ==
  ScanLines(sseStream, Split(sseStream), 1, "complete")

extractCompleteEventData(sseStream) ==
  ScanLines(sseStream, Split(sseStream), 1, "")

(***************************************************************************)
(* Event streams given to the extractor. A stream is written line by line  *)
(* by the backend; each line of the vocabulary carries what the backend    *)
(* means by it (kind, event name, data text) next to its text.             *)
(***************************************************************************)
Pad10  == "0123456789"
Pad50  == Pad10 \o Pad10 \o Pad10 \o Pad10 \o Pad10
Pad297 == Pad50 \o Pad50 \o Pad50 \o Pad50 \o Pad50 \o SubSeq(Pad50, 1, 47)

EventLine(text, name) == [text |-> text, kind |-> "event", name |-> name, data |-> ""]
DataLine(text, data)  == [text |-> text, kind |-> "data", name |-> "", data |-> data]
OtherLine(text)       == [text |-> text, kind |-> "other", name |-> "", data |-> ""]

LineVocab ==
  { EventLine("event: complete", "complete"),
    EventLine("event:error\r", "error"),
    EventLine("event: heartbeat ", "heartbeat"),
    OtherLine(""),
    OtherLine(": " \o Pad297),
    DataLine("data: [{\"url\": \"https://x/y.png\"}, 42]",
             "[{\"url\": \"https://x/y.png\"}, 42]"),
    DataLine("data: null", "null"),
    DataLine("data:{\"error\":\"X\"}\r", "{\"error\":\"X\"}"),
    DataLine("data: {\"error\":\"\"}", "{\"error\":\"\"}"),
    DataLine("data: {\"message\":\"M\"}", "{\"message\":\"M\"}"),
    DataLine("data: {\"error\":\"X\",\"message\":\"M\"}",
             "{\"error\":\"X\",\"message\":\"M\"}"),
    DataLine("data: not json", "not json"),
    DataLine("data:", "") }

RECURSIVE Join(_)
Join(ls) ==
  IF Len(ls) = 0 THEN ""
  ELSE IF Len(ls) = 1 THEN ls[1].text
  ELSE ls[1].text \o "\n" \o Join(Tail(ls))

Streams == UNION {[1..n -> LineVocab] : n \in 1..MaxLines}

Pending == [kind |-> "pending", value |-> JUndef, err |-> "", message |-> ""]

(***************************************************************************)
(* Static configuration of the shared package: providers, hosted spaces,   *)
(* validators and the image-URL allow-list.                                *)
(***************************************************************************)
PROVIDER_CONFIGS ==
  [gitee       |-> [id |-> "gitee", name |-> "Gitee AI",
                    requiresAuth |-> TRUE, authHeader |-> "X-API-Key"],
   huggingface |-> [id |-> "huggingface", name |-> "HuggingFace",
                    requiresAuth |-> FALSE, authHeader |-> "X-HF-Token"],
   modelscope  |-> [id |-> "modelscope", name |-> "ModelScope",
                    requiresAuth |-> TRUE, authHeader |-> "X-MS-Token"]]

\* hasProvider(providerId) of the provider registry.
hasProvider(providerId) == providerId \in DOMAIN PROVIDER_CONFIGS

\* The hosted space of each model, and of the upscaler.
HF_SPACES ==
  [x \in {"z-image-turbo", "qwen-image-fast", "ovis-image", "flux-1-schnell", "upscaler"}
     |-> "https://" \o x \o ".hf.space"]

Valid == [valid |-> TRUE, error |-> ""]
Invalid(error) == [valid |-> FALSE, error |-> error]

\* validatePrompt: a string that is not empty once trimmed.
validatePrompt(prompt) ==
  IF prompt.t # "str" \/ Trim(prompt.v) = "" THEN Invalid("Prompt is required")
  ELSE Valid

\* validateDimensions: both positive and aligned; the error names the dimension.
validateDimensions(width, height) ==
  IF width.t # "num" \/ width.v <= 0 \/ width.v % 8 # 0
  THEN Invalid("Invalid width")
  ELSE IF height.t # "num" \/ height.v <= 0 \/ height.v % 8 # 0
  THEN Invalid("Invalid height")
  ELSE Valid

\* validateSteps: an integer within the supported range.
validateSteps(steps) ==
  IF steps.t # "num" \/ steps.v < 1 \/ steps.v > 50 THEN Invalid("Invalid steps")
  ELSE Valid

\* validateScale: one of the allowed upscale factors.
validateScale(scale) ==
  IF scale.t # "num" \/ scale.v \notin {2, 4} THEN Invalid("Invalid scale")
  ELSE Valid

\* The image URLs of the model with the host each names.
UrlHosts ==
  [u \in {"https://z-image-turbo.hf.space/file=a.png", "https://evil.example/a.png",
          "https://evil.example/?u=.hf.space"}
     |-> IF u = "https://z-image-turbo.hf.space/file=a.png"
         THEN "z-image-turbo.hf.space" ELSE "evil.example"]

\* isAllowedImageUrl: the URL's host is a trusted one.
isAllowedImageUrl(url) ==
  url \in DOMAIN UrlHosts /\ UrlHosts[url] \in {"z-image-turbo.hf.space"}

(***************************************************************************)
(* Inbound requests: a route, the body as c.req.json() decodes it (or the  *)
(* mark that it does not decode), and the headers sent.                    *)
(***************************************************************************)
InvalidJson == [t |-> "invalid", v |-> 0]

Absent == JUndef

\* An object with the given fields, the absent ones left out.
ObjectOf(fields) ==
  JObj([n \in {m \in DOMAIN fields : fields[m] # Absent} |-> fields[n]])

\* c.req.header(name)
Header(headers, name) ==
  IF name \in DOMAIN headers THEN JStr(headers[name]) ELSE JUndef

\* a ?? b
Nullish(a, b) == IF a.t \in {"null", "undefined"} THEN b ELSE a

HeaderSets ==
  { <<>>,
    [n \in {"X-API-Key"} |-> "key"],
    [n \in {"X-API-Key"} |-> ""],
    [n \in {"X-HF-Token"} |-> "hf" ] }

GenerateBodies ==
  {InvalidJson, JNull, JNum(5)} \cup
  { ObjectOf([provider |-> pv, model |-> md, prompt |-> pr, width |-> w,
              steps |-> st, seed |-> sd]) :
      pv \in {Absent, JStr(""), JStr("gitee"), JStr("modelscope"), JStr("huggingface"),
              JStr("bogus")},
      md \in {Absent, JStr("flux-1-schnell")},
      pr \in {JStr("cat"), JStr(" ")},
      w  \in {Absent, JNum(1023)},
      st \in {Absent, JNum(0)},
      sd \in {Absent, JNum(7)} }

NoRequest == [route |-> "none", body |-> JUndef, headers |-> <<>>]

GenerateRequests ==
  {[route |-> "generate", body |-> b, headers |-> h] :
     b \in GenerateBodies, h \in HeaderSets}

HfBodies ==
  {InvalidJson, JNull} \cup
  { ObjectOf([prompt |-> pr, width |-> w, model |-> md, seed |-> sd]) :
      pr \in {JStr("cat"), JStr("")},
      w  \in {Absent, JNum(1023)},
      md \in {Absent, JStr("ovis-image"), JStr("upscaler"), JStr("no-such-model"),
              JStr("constructor")},
      sd \in {Absent, JNum(7), JNum(0), JNull} }

HfRequests ==
  {[route |-> "generate-hf", body |-> b, headers |-> h] :
     b \in HfBodies, h \in {<<>>, [n \in {"X-HF-Token"} |-> "hf"]}}

UpscaleBodies ==
  {InvalidJson, JNull, JNum(5)} \cup
  { ObjectOf([url |-> u, scale |-> sc]) :
      u  \in {Absent, JNum(5), JStr("")} \cup {JStr(x) : x \in DOMAIN UrlHosts},
      sc \in {Absent, JNum(2), JNum(3)} }

UpscaleRequests ==
  {[route |-> "upscale", body |-> b, headers |-> h] :
     b \in UpscaleBodies, h \in {<<>>, [n \in {"X-HF-Token"} |-> "hf"]}}

AllRequests == GenerateRequests \cup HfRequests \cup UpscaleRequests

(***************************************************************************)
(* Responses and thrown values.                                            *)
(***************************************************************************)
NoResponse == [kind |-> "none", status |-> 0, error |-> "", url |-> "", seed |-> JUndef]

\* c.json({ error }, status)
ErrorReply(status, error) ==
  [kind |-> "json", status |-> status, error |-> error, url |-> "", seed |-> JUndef]

\* c.json(result): status 200 with the normalized result.
ResultReply(url, seed) ==
  [kind |-> "json", status |-> 200, error |-> "", url |-> url, seed |-> seed]

\* An exception that leaves the handler: no response is returned by it.
Escaped(message) ==
  [kind |-> "escaped", status |-> 0, error |-> message, url |-> "", seed |-> JUndef]

\* A thrown Error object, and a thrown value that is not an Error.
ErrorObject(message) == [isError |-> TRUE, message |-> message]
NonError == [isError |-> FALSE, message |-> ""]

\* The TypeError of a property read on null.
NullRead == "Cannot read properties of null"

(***************************************************************************)
(* POST /generate: the checks before the adapter is called.                *)
(***************************************************************************)
Rejected(reply) == [kind |-> "reply", reply |-> reply, providerId |-> "", request |-> <<>>]

Passed(providerId, request) ==
  [kind |-> "pass", reply |-> NoResponse, providerId |-> providerId, request |-> request]

\* A bug ProviderIdOf could have: no default, the field is used as sent.
ProviderIdOfNoDefault(body) == JsString(Field(body, "provider"))

\* body.provider || 'gitee'
ProviderIdOf(body) == JsString(OrElse(Field(body, "provider"), JStr("gitee")))

\* A bug AuthMissing could have: only the absence of the header counts,
\* an empty one passes.
AuthMissingOnlyAbsent(providerConfig, authToken) ==
  providerConfig.requiresAuth /\ authToken = JUndef

\* providerConfig?.requiresAuth && !authToken
AuthMissing(providerConfig, authToken) ==
  providerConfig.requiresAuth /\ ~Truthy(authToken)

\* The width, height and steps the handler works with.
WidthOf(body)  == Nullish(Field(body, "width"), JNum(1024))
HeightOf(body) == Nullish(Field(body, "height"), JNum(1024))
StepsOf(body)  ==
  Nullish(Field(body, "steps"), Nullish(Field(body, "num_inference_steps"), JNum(9)))

\* A bug ValidateRequest could have: the steps are validated first.
ValidateRequestStepsFirst(body) ==
  IF ~validateSteps(StepsOf(body)).valid
  THEN Rejected(ErrorReply(400, validateSteps(StepsOf(body)).error))
  ELSE IF ~validatePrompt(Field(body, "prompt")).valid
  THEN Rejected(ErrorReply(400, validatePrompt(Field(body, "prompt")).error))
  ELSE IF ~validateDimensions(WidthOf(body), HeightOf(body)).valid
  THEN Rejected(ErrorReply(400, validateDimensions(WidthOf(body), HeightOf(body)).error))
  ELSE Passed("", <<>>)

\* The validators in the handler's order: prompt, dimensions, steps.
ValidateRequest(body) ==
  LET promptValidation     == validatePrompt(Field(body, "prompt"))
      dimensionsValidation == validateDimensions(WidthOf(body), HeightOf(body))
      stepsValidation      == validateSteps(StepsOf(body))
  IN  IF ~promptValidation.valid
      THEN Rejected(ErrorReply(400, promptValidation.error))
      ELSE IF ~dimensionsValidation.valid
      THEN Rejected(ErrorReply(400, dimensionsValidation.error))
      ELSE IF ~stepsValidation.valid
      THEN Rejected(ErrorReply(400, stepsValidation.error))
      ELSE Passed("", <<>>)

\* From the parsed body to the first failing check's response, or to the
\* request handed to the adapter.
GenerateChecks(q) ==
  LET body == q.body IN
  IF body = InvalidJson THEN Rejected(ErrorReply(400, "Invalid JSON body"))
  ELSE IF body = JNull THEN Rejected(Escaped(NullRead))
  ELSE
    LET providerId == ProviderIdOf(body) IN
    IF ~hasProvider(providerId)
    THEN Rejected(ErrorReply(400, "Invalid provider: " \o providerId))
    ELSE
      LET providerConfig == PROVIDER_CONFIGS[providerId]
          authToken      == Header(q.headers, providerConfig.authHeader)
      IN
      IF AuthMissing(providerConfig, authToken)
      THEN Rejected(ErrorReply(401,
             providerConfig.authHeader \o " is required for " \o providerConfig.name))
      ELSE IF ValidateRequest(body).kind = "reply"
      THEN ValidateRequest(body)
      ELSE Passed(providerId,
             [model |-> Field(body, "model"), prompt |-> Field(body, "prompt"),
              width |-> WidthOf(body), height |-> HeightOf(body),
              steps |-> StepsOf(body), seed |-> Field(body, "seed"),
              authToken |-> authToken])

(***************************************************************************)
(* The HuggingFace provider and the Gradio job client.                     *)
(***************************************************************************)
\* Math.floor(Math.random() * 2147483647) ranges over 0 .. RandomRange - 1.
RandomRange == 2147483647
RandomSeeds == {0, RandomRange - 1}

\* MODEL_CONFIGS: endpoint and positional arguments of each model.
ModelIds == {"z-image-turbo", "qwen-image-fast", "ovis-image", "flux-1-schnell"}

Endpoint(modelId) ==
  CASE modelId = "z-image-turbo"   -> "generate_image"
    [] modelId = "qwen-image-fast" -> "generate_image"
    [] modelId = "ovis-image"      -> "generate"
    [] modelId = "flux-1-schnell"  -> "infer"

buildData(modelId, r, seed) ==
  CASE modelId = "z-image-turbo" ->
         <<r.prompt, r.height, r.width, Nullish(r.steps, JNum(9)), seed, JBool(FALSE)>>
    [] modelId = "qwen-image-fast" ->
         <<r.prompt, seed, JBool(TRUE), JStr("1:1"), JNum(3), Nullish(r.steps, JNum(8))>>
    [] modelId = "ovis-image" ->
         <<r.prompt, r.height, r.width, seed, Nullish(r.steps, JNum(24)), JNum(4)>>
    [] modelId = "flux-1-schnell" ->
         <<r.prompt, seed, JBool(FALSE), r.width, r.height, Nullish(r.steps, JNum(8))>>

\* Names every object literal answers to without having them as keys of
\* its own: a lookup by such a name yields a member of Object.prototype.
ObjectPrototypeKeys == {"constructor", "toString"}

\* request.model || 'z-image-turbo'
ModelIdOf(request) == JsString(OrElse(request.model, JStr("z-image-turbo")))

\* MODEL_CONFIGS[modelId] || MODEL_CONFIGS['z-image-turbo']: the model whose
\* config is used, "" when the lookup yields an inherited member, which is
\* truthy and is no config.
ConfigIdOf(modelId) ==
  IF modelId \in ModelIds THEN modelId
  ELSE IF modelId \in ObjectPrototypeKeys THEN ""
  ELSE "z-image-turbo"

\* config.buildData(request, seed) on a value without buildData.
BuildDataThrows(request) == ConfigIdOf(ModelIdOf(request)) = ""

NotAFunction == "config.buildData is not a function"

\* A bug SeedOf could have: without a requested seed the backend's "pick
\* one yourself" mark is sent.
SeedOfUnset(request, rnd) == Nullish(request.seed, JNum(0 - 1))

\* request.seed ?? Math.floor(Math.random() * 2147483647)
SeedOf(request, rnd) == Nullish(request.seed, JNum(rnd))

\* The arguments HuggingFaceProvider.generate calls callGradioApi with.
HfCall(request, rnd) ==
  LET seed     == SeedOf(request, rnd)
      modelId  == ModelIdOf(request)
      baseUrl  == IF modelId \in DOMAIN HF_SPACES THEN HF_SPACES[modelId]
                  ELSE HF_SPACES["z-image-turbo"]
      configId == ConfigIdOf(modelId)
  IN  [caller |-> "hf", baseUrl |-> baseUrl, endpoint |-> Endpoint(configId),
       data |-> buildData(configId, request, seed), hfToken |-> request.authToken,
       seed |-> seed, eventId |-> ""]

\* The arguments POST /upscale calls callGradioApi with.
UpscaleCall(body, scale, hfToken) ==
  [caller |-> "upscale", baseUrl |-> HF_SPACES["upscaler"], endpoint |-> "realesrgan",
   data |-> <<JObj([path |-> Field(body, "url"),
                    meta |-> JObj([_type |-> JStr("gradio.FileData")])]),
              JStr("RealESRGAN_x4plus"), JFloat("0.5"), JBool(FALSE), scale>>,
   hfToken |-> hfToken, seed |-> JUndef, eventId |-> ""]

NoCall ==
  [caller |-> "", baseUrl |-> "", endpoint |-> "", data |-> <<>>, hfToken |-> JUndef,
   seed |-> JUndef, eventId |-> ""]

\* headers.Authorization, when a token is given.
Authorization(hfToken) ==
  IF Truthy(hfToken) THEN "Bearer " \o JsString(hfToken) ELSE ""

\* fetch(`${baseUrl}/gradio_api/call/${endpoint}`, { method: 'POST', ... })
PostRequest(c) ==
  [method |-> "POST", url |-> c.baseUrl \o "/gradio_api/call/" \o c.endpoint,
   authorization |-> Authorization(c.hfToken), data |-> c.data]

\* A bug GetRequest could have: the first job's handle is kept and reused.
GetRequestFirstJob(c, eventId) ==
  [method |-> "GET",
   url |-> c.baseUrl \o "/gradio_api/call/" \o c.endpoint \o "/job1",
   authorization |-> Authorization(c.hfToken), data |-> <<>>]

\* fetch(`${baseUrl}/gradio_api/call/${endpoint}/${queueData.event_id}`, { headers })
GetRequest(c, eventId) ==
  [method |-> "GET",
   url |-> c.baseUrl \o "/gradio_api/call/" \o c.endpoint \o "/" \o eventId,
   authorization |-> Authorization(c.hfToken), data |-> <<>>]

\* What the backend may answer to the submission.
SubmitOutcomes ==
  { [kind |-> "network", status |-> 0, text |-> ""],
    [kind |-> "status", status |-> 429, text |-> "Too Many Requests"],
    [kind |-> "notjson", status |-> 200, text |-> "<html>"],
    [kind |-> "noid", status |-> 200, text |-> "{}"],
    [kind |-> "ok", status |-> 200, text |-> ""] }

\* A bug SubmitFailure could have: every failure is reported alike, without
\* the status.
SubmitFailureGeneric(caller, o) == ErrorObject("Queue request failed")

\* The error callGradioApi throws for a submission answer, if any.
SubmitFailure(caller, o) ==
  CASE o.kind = "network" -> ErrorObject("fetch failed")
    [] o.kind = "status" ->
         IF caller = "hf"
         THEN ErrorObject("Queue request failed: " \o Digits(o.status) \o " - "
                          \o Substring(o.text, 0, 100))
         ELSE ErrorObject("Queue request failed: " \o Digits(o.status))
    [] o.kind = "notjson" -> ErrorObject(SyntaxErrorMessage)
    [] o.kind = "noid" -> ErrorObject("No event_id returned")

\* The event streams the backend may answer the result request with.
ResultStreams ==
  { "event: complete\ndata: [{\"url\": \"https://x/y.png\"}, 42]\n",
    "event: heartbeat\ndata: null\n\nevent: complete\ndata: [{\"url\":\"https://x/y.png\"}]\n\n",
    "event: complete\ndata: [{\"url\":\"https://x/y.png\"},\"s\"]\n",
    "event: complete\ndata: [{\"url\":\"\"},42]\n",
    "event: complete\ndata: [{}]\n",
    "event: complete\ndata: []\n",
    "event: complete\ndata: null\n",
    "event: error\ndata: {\"error\":\"quota exceeded\"}\n",
    "event: heartbeat\ndata: null\n\n" }

\* value[i] for a decoded value that is not null.
Index(value, i) ==
  IF value.t = "arr" /\ (i + 1) \in DOMAIN value.v THEN value.v[i + 1] ELSE JUndef

\* A bug ExtractedUrl could have: the second element is read.
ExtractedUrlSecond(data) == Field(Index(data, 1), "url")

\* result[0]?.url
ExtractedUrl(data) == Field(Index(data, 0), "url")

\* A bug NoUrl could have: only a missing url counts, an empty one passes.
NoUrlOnlyUndefined(imageUrl) == imageUrl = JUndef

\* !imageUrl
NoUrl(imageUrl) == ~Truthy(imageUrl)

\* A bug ResultSeed could have: the backend's seed is not looked at.
ResultSeedRequested(data, seed) == seed

\* typeof result[1] === 'number' ? result[1] : seed
ResultSeed(data, seed) == IF Index(data, 1).t = "num" THEN Index(data, 1) ELSE seed

\* What HuggingFaceProvider.generate makes of the decoded result: the
\* normalized result, or a thrown error.
HfResult(data, seed) ==
  IF data.t = "null" THEN [ok |-> FALSE, thrown |-> ErrorObject(NullRead), reply |-> NoResponse]
  ELSE IF NoUrl(ExtractedUrl(data))
  THEN [ok |-> FALSE, thrown |-> ErrorObject("No image returned from HuggingFace"),
        reply |-> NoResponse]
  ELSE [ok |-> TRUE, thrown |-> NonError,
        reply |-> ResultReply(JsString(ExtractedUrl(data)), ResultSeed(data, seed))]

\* What POST /upscale makes of the decoded result.
UpscaleResult(data) ==
  IF data.t = "null" THEN [ok |-> FALSE, thrown |-> ErrorObject(NullRead), reply |-> NoResponse]
  ELSE IF NoUrl(ExtractedUrl(data))
  THEN [ok |-> TRUE, thrown |-> NonError, reply |-> ErrorReply(500, "No image returned")]
  ELSE [ok |-> TRUE, thrown |-> NonError,
        reply |-> ResultReply(JsString(ExtractedUrl(data)), JUndef)]

\* The generic message of each route's catch block.
GenericMessage(route) ==
  CASE route = "generate" -> "Image generation failed"
    [] route = "generate-hf" -> "Generation failed"
    [] route = "upscale" -> "Upscale failed"

\* A bug RouteCatch could have: the generic message replaces the error's.
RouteCatchGeneric(route, thrown) == ErrorReply(500, GenericMessage(route))

\* catch (err): 500 with err.message for an Error, else the generic message.
RouteCatch(route, thrown) ==
  ErrorReply(500, IF thrown.isError THEN thrown.message ELSE GenericMessage(route))

(***************************************************************************)
(* State.                                                                  *)
(***************************************************************************)
\* Two inbound requests, which the server may handle concurrently.
Reqs == {"r1", "r2"}

VARIABLES
  wireLines,  \* extractor: the stream as the backend wrote it, line by line
  wireText,   \* extractor: its text, the extractor's argument
  outcome,    \* extractor: what extractCompleteEventData returned or threw
  req,        \* the request each client sends (NoRequest: none)
  pc,         \* where each request's handler is
  resp,       \* the response the handler returned
  call,       \* the callGradioApi invocation a handler is suspended in
  calls,      \* the backend requests each handler has issued, in order
  invoked,    \* how often each handler called an adapter's generate
  answer,     \* what the backend (or the adapter) answered each handler, in order
  nextJob     \* backend: the number of the next job it queues

\* The browser's useVideoGenerator hook.
VARIABLES
  videoState,   \* the hook's state, as last set
  effect,       \* the polling effect as last run: its dependencies and its interval
  pollingRef,   \* pollingRef.current (0: null)
  intervals,    \* the intervals that are set and not cleared, each with what its callback closes over
  inflight,     \* the status requests that are awaited
  gens,         \* the generateVideo calls that are awaited
  used,         \* how many generateVideo calls, timer ticks, resets, intervals, tasks so far
  closedTasks   \* the tasks whose polling ended in a terminal state or a reset

\* The browser's store of flow sessions (IndexedDB, lib/utils.ts).
VARIABLES
  sessions,     \* the object store `sessions`, by key (NoSession: no record)
  flowQueue,    \* the store's requests that are made and not yet run, in order
  flowLog,      \* the store's requests that ran, in order
  flowCalls,    \* how many calls of the session functions so far
  now           \* Date.now()

extractVars  == <<wireLines, wireText, outcome>>
dispatchVars == <<req, pc, resp, call, calls, invoked, answer, nextJob>>
videoVars    == <<videoState, effect, pollingRef, intervals, inflight, gens, used, closedTasks>>
flowVars     == <<sessions, flowQueue, flowLog, flowCalls, now>>
vars == <<wireLines, wireText, outcome, req, pc, resp, call, calls, invoked, answer, nextJob,
          videoState, effect, pollingRef, intervals, inflight, gens, used, closedTasks,
          sessions, flowQueue, flowLog, flowCalls, now>>

\* How many calls of the session functions are followed, and how far the
\* clock runs.
MaxFlowCalls == 4
MaxNow == 2

\* `flow-${Date.now()}`
FlowId(t) == "flow-" \o Digits(t)
FlowIds == {FlowId(t) : t \in 1..MaxNow}

\* What db.get yields for a key without record (undefined).
NoSession == [id |-> "", createdAt |-> 0, updatedAt |-> 0, images |-> <<>>]

\* The store as opened for the first time, nothing asked of it.
FlowIdle ==
  /\ sessions = [id \in FlowIds |-> NoSession]
  /\ flowQueue = <<>>
  /\ flowLog = <<>>
  /\ flowCalls = 0
  /\ now = 1

\* useState<VideoState>({ status: 'idle' }); absent fields are "".
VideoStateOf(status, taskId, videoUrl, error, provider, token) ==
  [status |-> status, taskId |-> taskId, videoUrl |-> videoUrl, error |-> error,
   provider |-> provider, token |-> token]

Idle == VideoStateOf("idle", "", "", "", "", "")

\* [videoState.status, videoState.taskId, videoState.provider, videoState.token]
Deps(vs) == <<vs.status, vs.taskId, vs.provider, vs.token>>

\* The hook as mounted and rendered once: the effect ran and returned early.
VideoIdle ==
  /\ videoState = Idle
  /\ effect = [deps |-> Deps(Idle), interval |-> 0]
  /\ pollingRef = 0
  /\ intervals = {}
  /\ inflight = {}
  /\ gens = {}
  /\ used = [generations |-> 0, ticks |-> 0, resets |-> 0, intervals |-> 0, tasks |-> 0]
  /\ closedTasks = {}

(***************************************************************************)
(* The extractor on its own.                                               *)
(***************************************************************************)
NoTraffic ==
  /\ req = [r \in Reqs |-> NoRequest]
  /\ pc = [r \in Reqs |-> "absent"]
  /\ resp = [r \in Reqs |-> NoResponse]
  /\ call = [r \in Reqs |-> NoCall]
  /\ calls = [r \in Reqs |-> <<>>]
  /\ invoked = [r \in Reqs |-> 0]
  /\ answer = [r \in Reqs |-> <<>>]
  /\ nextJob = 1

ExtractInit ==
  /\ wireLines \in Streams
  /\ wireText = Join(wireLines)
  /\ outcome = Pending
  /\ NoTraffic
  /\ VideoIdle
  /\ FlowIdle

\* A call of extractCompleteEventData on the stream's text.
Extract ==
  /\ outcome = Pending
  /\ outcome' = extractCompleteEventData(wireText)
  /\ UNCHANGED <<wireLines, wireText>>
  /\ UNCHANGED dispatchVars
  /\ UNCHANGED videoVars
  /\ UNCHANGED flowVars

SpecExtract == ExtractInit /\ [][Extract]_vars

(***************************************************************************)
(* The server: requests, handlers and the backend's answers.               *)
(***************************************************************************)
\* The requests sent two at a time: one of each kind that reaches the
\* backend, and one that is refused.
PairRequests ==
  { [route |-> "generate", headers |-> <<>>,
     body |-> ObjectOf([provider |-> JStr("huggingface"), prompt |-> JStr("cat")])],
    [route |-> "generate", headers |-> <<>>,
     body |-> ObjectOf([provider |-> JStr("gitee"), prompt |-> JStr("cat")])],
    [route |-> "generate-hf", headers |-> [n \in {"X-HF-Token"} |-> "hf"],
     body |-> ObjectOf([prompt |-> JStr("cat"), seed |-> JNum(7)])],
    [route |-> "upscale", headers |-> <<>>,
     body |-> ObjectOf([url |-> JStr("https://z-image-turbo.hf.space/file=a.png")])] }

Workloads ==
  {[r \in Reqs |-> IF r = "r1" THEN q ELSE NoRequest] : q \in AllRequests}
  \cup {[r \in Reqs |-> IF r = "r1" THEN q[1] ELSE q[2]] : q \in PairRequests \X PairRequests}

Init ==
  /\ req \in Workloads
  /\ pc = [r \in Reqs |-> IF req[r] = NoRequest THEN "absent" ELSE "arrived"]
  /\ resp = [r \in Reqs |-> NoResponse]
  /\ call = [r \in Reqs |-> NoCall]
  /\ calls = [r \in Reqs |-> <<>>]
  /\ invoked = [r \in Reqs |-> 0]
  /\ answer = [r \in Reqs |-> <<>>]
  /\ nextJob = 1
  /\ wireLines = <<>>
  /\ wireText = ""
  /\ outcome = Pending
  /\ VideoIdle
  /\ FlowIdle

\* A bug Finish could have: the response is made and the request is not ended.
FinishStaysOpen(r, reply) ==
  /\ pc' = pc
  /\ resp' = [resp EXCEPT ![r] = reply]

\* The handler returns (or lets an exception escape): the request is over.
Finish(r, reply) ==
  /\ pc' = [pc EXCEPT ![r] = "done"]
  /\ resp' = [resp EXCEPT ![r] = reply]

\* callGradioApi up to its first await: the submission is sent.
Submit(r, c) ==
  /\ pc' = [pc EXCEPT ![r] = "submitting"]
  /\ call' = [call EXCEPT ![r] = c]
  /\ calls' = [calls EXCEPT ![r] = Append(@, PostRequest(c))]
  /\ UNCHANGED resp

\* HuggingFaceProvider.generate up to its first await, under the route's
\* try: the submission is sent, or building its arguments throws.
InvokeHf(r, request) ==
  /\ invoked' = [invoked EXCEPT ![r] = @ + 1]
  /\ IF BuildDataThrows(request)
     THEN /\ Finish(r, RouteCatch(req[r].route, ErrorObject(NotAFunction)))
          /\ UNCHANGED <<call, calls>>
     ELSE \E rnd \in RandomSeeds : Submit(r, HfCall(request, rnd))

\* POST /generate, from the body to a response, to the adapter of a provider
\* kept elsewhere, or to the HuggingFace provider's submission.
HandleGenerate(r) ==
  /\ pc[r] = "arrived"
  /\ req[r].route = "generate"
  /\ LET c == GenerateChecks(req[r]) IN
       IF c.kind = "reply"
       THEN Finish(r, c.reply) /\ UNCHANGED <<call, calls, invoked>>
       ELSE IF c.providerId = "huggingface"
       THEN InvokeHf(r, c.request)
       ELSE /\ pc' = [pc EXCEPT ![r] = "adapter"]
            /\ invoked' = [invoked EXCEPT ![r] = @ + 1]
            /\ UNCHANGED <<resp, call, calls>>
  /\ UNCHANGED <<req, answer, nextJob>>
  /\ UNCHANGED extractVars
  /\ UNCHANGED videoVars
  /\ UNCHANGED flowVars

\* The adapter of a provider other than HuggingFace settles: a result, an
\* Error, or a thrown value that is no Error.
AdapterSettles(r) ==
  /\ pc[r] = "adapter"
  /\ \E o \in {"result", "error", "nonerror"} :
       /\ answer' = [answer EXCEPT ![r] = Append(@, o)]
       /\ Finish(r, CASE o = "result" -> ResultReply("https://cdn.example/out.png", JNum(11))
                      [] o = "error" -> RouteCatch(req[r].route, ErrorObject("API error: 503"))
                      [] o = "nonerror" -> RouteCatch(req[r].route, NonError))
  /\ UNCHANGED <<req, call, calls, invoked, nextJob>>
  /\ UNCHANGED extractVars
  /\ UNCHANGED videoVars
  /\ UNCHANGED flowVars

\* POST /generate-hf.
HandleGenerateHf(r) ==
  /\ pc[r] = "arrived"
  /\ req[r].route = "generate-hf"
  /\ LET body == req[r].body IN
       IF body = InvalidJson
       THEN Finish(r, ErrorReply(400, "Invalid JSON body")) /\ UNCHANGED <<call, calls, invoked>>
       ELSE IF body = JNull
       THEN Finish(r, Escaped(NullRead)) /\ UNCHANGED <<call, calls, invoked>>
       ELSE IF ~validatePrompt(Field(body, "prompt")).valid
       THEN /\ Finish(r, ErrorReply(400, validatePrompt(Field(body, "prompt")).error))
            /\ UNCHANGED <<call, calls, invoked>>
       ELSE IF ~validateDimensions(WidthOf(body), HeightOf(body)).valid
       THEN /\ Finish(r, ErrorReply(400, validateDimensions(WidthOf(body), HeightOf(body)).error))
            /\ UNCHANGED <<call, calls, invoked>>
       ELSE InvokeHf(r, [model |-> OrElse(Field(body, "model"), JStr("z-image")),
                         prompt |-> Field(body, "prompt"),
                         width |-> WidthOf(body), height |-> HeightOf(body),
                         steps |-> JUndef, seed |-> Field(body, "seed"),
                         authToken |-> Header(req[r].headers, "X-HF-Token")])
  /\ UNCHANGED <<req, answer, nextJob>>
  /\ UNCHANGED extractVars
  /\ UNCHANGED videoVars
  /\ UNCHANGED flowVars

\* A bug UrlRefused could have: the allow-list is not consulted.
UrlRefusedNever(url) == FALSE

\* !isAllowedImageUrl(body.url)
UrlRefused(url) == ~isAllowedImageUrl(url.v)

\* POST /upscale.
HandleUpscale(r) ==
  /\ pc[r] = "arrived"
  /\ req[r].route = "upscale"
  /\ LET body  == req[r].body
         url   == Field(body, "url")
         scale == Nullish(Field(body, "scale"), JNum(4))
     IN
       IF body = InvalidJson
       THEN Finish(r, ErrorReply(400, "Invalid JSON body")) /\ UNCHANGED <<call, calls>>
       ELSE IF body = JNull
       THEN Finish(r, Escaped(NullRead)) /\ UNCHANGED <<call, calls>>
       ELSE IF ~Truthy(url) \/ url.t # "str"
       THEN Finish(r, ErrorReply(400, "url is required")) /\ UNCHANGED <<call, calls>>
       ELSE IF UrlRefused(url)
       THEN Finish(r, ErrorReply(400, "URL not allowed")) /\ UNCHANGED <<call, calls>>
       ELSE IF ~validateScale(scale).valid
       THEN Finish(r, ErrorReply(400, validateScale(scale).error)) /\ UNCHANGED <<call, calls>>
       ELSE Submit(r, UpscaleCall(body, scale, Header(req[r].headers, "X-HF-Token")))
  /\ UNCHANGED <<req, invoked, answer, nextJob>>
  /\ UNCHANGED extractVars
  /\ UNCHANGED videoVars
  /\ UNCHANGED flowVars

\* A bug SubmitFailed could have: a failed submission is sent again.
SubmitFailedRetry(r, o) ==
  IF Len(calls[r]) < 3
  THEN /\ calls' = [calls EXCEPT ![r] = Append(@, PostRequest(call[r]))]
       /\ UNCHANGED <<pc, resp, call, nextJob>>
  ELSE /\ Finish(r, RouteCatch(req[r].route, SubmitFailure(call[r].caller, o)))
       /\ UNCHANGED <<call, calls, nextJob>>

\* callGradioApi throws on a failed submission: no result request, no retry.
SubmitFailed(r, o) ==
  /\ Finish(r, RouteCatch(req[r].route, SubmitFailure(call[r].caller, o)))
  /\ UNCHANGED <<call, calls, nextJob>>

\* The submission is answered: an error is thrown up to the route's catch,
\* or the result request is sent with the job's id.
SubmitAnswered(r) ==
  /\ pc[r] = "submitting"
  /\ \E o \in SubmitOutcomes :
       /\ answer' = [answer EXCEPT ![r] = Append(@, o.kind)]
       /\ IF o.kind = "ok"
          THEN LET eventId == "job" \o Digits(nextJob) IN
               /\ pc' = [pc EXCEPT ![r] = "fetching"]
               /\ call' = [call EXCEPT ![r].eventId = eventId]
               /\ calls' = [calls EXCEPT ![r] = Append(@, GetRequest(call[r], eventId))]
               /\ nextJob' = nextJob + 1
               /\ UNCHANGED resp
          ELSE SubmitFailed(r, o)
  /\ UNCHANGED <<req, invoked>>
  /\ UNCHANGED extractVars
  /\ UNCHANGED videoVars
  /\ UNCHANGED flowVars

\* extractCompleteEventData(text) for each text the backend may answer with,
\* as the set of the pairs <<text, outcome>>.
ExtractedResults == {<<text, extractCompleteEventData(text)>> : text \in ResultStreams}

\* What the caller of callGradioApi makes of the stream's text.
ResultOutcome(route, c, text) ==
  LET extracted == (CHOOSE pair \in ExtractedResults : pair[1] = text)[2]
      mapped    == IF c.caller = "hf" THEN HfResult(extracted.value, c.seed)
                   ELSE UpscaleResult(extracted.value)
  IN  IF extracted.kind = "throw"
      THEN RouteCatch(route, ErrorObject(extracted.message))
      ELSE IF mapped.ok THEN mapped.reply
      ELSE RouteCatch(route, mapped.thrown)

\* The result request is answered with the whole stream, or fails.
ResultAnswered(r) ==
  /\ pc[r] = "fetching"
  /\ \/ \E text \in ResultStreams :
          /\ answer' = [answer EXCEPT ![r] = Append(@, text)]
          /\ Finish(r, ResultOutcome(req[r].route, call[r], text))
     \/ /\ answer' = [answer EXCEPT ![r] = Append(@, "network")]
        /\ Finish(r, RouteCatch(req[r].route, ErrorObject("fetch failed")))
  /\ UNCHANGED <<req, call, calls, invoked, nextJob>>
  /\ UNCHANGED extractVars
  /\ UNCHANGED videoVars
  /\ UNCHANGED flowVars

Next ==
  \E r \in Reqs :
    \/ HandleGenerate(r)
    \/ HandleGenerateHf(r)
    \/ HandleUpscale(r)
    \/ AdapterSettles(r)
    \/ SubmitAnswered(r)
    \/ ResultAnswered(r)

Spec == Init /\ [][Next]_vars

\* The server with a runtime that runs every handler that can run, and a
\* backend (and adapters) that answer every request they are sent.
SpecFair ==
  /\ Init
  /\ [][Next]_vars
  /\ \A r \in Reqs :
       /\ WF_vars(HandleGenerate(r) \/ HandleGenerateHf(r) \/ HandleUpscale(r))
       /\ WF_vars(AdapterSettles(r) \/ SubmitAnswered(r) \/ ResultAnswered(r))

(***************************************************************************)
(* The browser's useVideoGenerator hook. React renders after a state       *)
(* update and runs the polling effect (the previous run's cleanup first)   *)
(* when one of its dependencies changed, before the next timer tick or     *)
(* response is handled.                                                    *)
(***************************************************************************)
\* How many generateVideo calls, timer ticks and resetVideo calls are followed.
MaxGenerations == 2
MaxTicks == 3
MaxResets == 1

Providers == {"gitee", "huggingface"}
GiteeTokens == {"", "tok"}

\* A bug AfterCleanup could have: the effect returns no cleanup.
AfterCleanupKeeps(ints, id) == ints

\* return () => clearInterval(pollInterval)
AfterCleanup(ints, id) == {i \in ints : i.id # id}

\* A bug ShouldPoll could have: the effect never returns early.
ShouldPollAlways(vs) == TRUE

\* The effect's early return, negated.
ShouldPoll(vs) == vs.status = "polling" /\ vs.taskId # "" /\ vs.token # ""

\* setVideoState(vs) in a handler that also cleared the intervals `cleared`
\* and counted its call in `u`, with the render that follows: when the
\* dependencies changed, the effect's cleanup and then the effect.
SetVideoState(vs, cleared, u) ==
  LET kept    == {i \in intervals : i.id \notin cleared}
      rerun   == Deps(vs) # effect.deps
      id      == u.intervals + 1
  IN  /\ videoState' = vs
      /\ closedTasks' = IF videoState.status = "polling" /\ vs.status # "polling"
                        THEN closedTasks \cup {videoState.taskId} ELSE closedTasks
      /\ IF rerun /\ ShouldPoll(vs)
         THEN /\ intervals' = AfterCleanup(kept, effect.interval)
                                \cup {[id |-> id, taskId |-> vs.taskId, token |-> vs.token,
                                       provider |-> vs.provider]}
              /\ effect' = [deps |-> Deps(vs), interval |-> id]
              /\ pollingRef' = id
              /\ used' = [u EXCEPT !.intervals = id]
         ELSE /\ intervals' = IF rerun THEN AfterCleanup(kept, effect.interval) ELSE kept
              /\ effect' = IF rerun THEN [deps |-> Deps(vs), interval |-> 0] ELSE effect
              /\ pollingRef' = pollingRef
              /\ used' = u

VideoInit ==
  /\ VideoIdle
  /\ FlowIdle
  /\ NoTraffic
  /\ wireLines = <<>>
  /\ wireText = ""
  /\ outcome = Pending

\* generateVideo(..., provider, giteeToken) up to its first await.
GenerateVideo(provider, giteeToken) ==
  /\ used.generations < MaxGenerations
  /\ LET u == [used EXCEPT !.generations = @ + 1]
         g == [id |-> u.generations, provider |-> provider, token |-> giteeToken]
     IN  IF provider # "huggingface" /\ giteeToken = ""
         THEN /\ SetVideoState(VideoStateOf("failed", "", "", "Gitee token required",
                                            provider, ""), {}, u)
              /\ UNCHANGED gens
         ELSE /\ SetVideoState(VideoStateOf("generating", "", "", "", provider, ""), {}, u)
              /\ gens' = gens \cup {g}
  /\ UNCHANGED inflight
  /\ UNCHANGED <<extractVars, dispatchVars, flowVars>>

\* await generateVideoHF(imageUrl, prompt) settles.
VideoHfSettles(g) ==
  /\ g \in gens /\ g.provider = "huggingface"
  /\ gens' = gens \ {g}
  /\ \E o \in {"url", "throws"} :
       SetVideoState(IF o = "url"
                     THEN VideoStateOf("success", "", "https://v/out.mp4", "", g.provider, "")
                     ELSE VideoStateOf("failed", "", "", "HF video failed", g.provider, ""),
                     {}, used)
  /\ UNCHANGED inflight
  /\ UNCHANGED <<extractVars, dispatchVars, flowVars>>

\* await createVideoTask(...) settles.
CreateTaskSettles(g) ==
  /\ g \in gens /\ g.provider # "huggingface"
  /\ gens' = gens \ {g}
  /\ \E o \in {"task", "refused", "throws"} :
       LET u == [used EXCEPT !.tasks = @ + 1] IN
       CASE o = "task" ->
              SetVideoState(VideoStateOf("polling", "task" \o Digits(u.tasks), "", "",
                                         g.provider, g.token), {}, u)
         [] o = "refused" ->
              SetVideoState(VideoStateOf("failed", "", "", "task refused", g.provider, ""),
                            {}, used)
         [] o = "throws" ->
              SetVideoState(VideoStateOf("failed", "", "", "Unknown error", g.provider, ""),
                            {}, used)
  /\ UNCHANGED inflight
  /\ UNCHANGED <<extractVars, dispatchVars, flowVars>>

\* The interval's callback runs, up to its await: the status is asked for.
Tick(i) ==
  /\ i \in intervals
  /\ used.ticks < MaxTicks
  /\ LET u == [used EXCEPT !.ticks = @ + 1] IN
       IF i.token = "" \/ i.taskId = ""
       THEN /\ SetVideoState(VideoStateOf("failed", "", "", "Missing token or task ID", "", ""),
                             {i.id}, u)
            /\ UNCHANGED inflight
       ELSE /\ inflight' = inflight \cup {[n |-> u.ticks, interval |-> i.id, taskId |-> i.taskId,
                                            provider |-> i.provider,
                                            late |-> i.taskId \in closedTasks]}
            /\ used' = u
            /\ UNCHANGED <<videoState, effect, pollingRef, intervals, closedTasks>>
  /\ UNCHANGED gens
  /\ UNCHANGED <<extractVars, dispatchVars, flowVars>>

\* What getVideoTaskStatus may resolve to: a result with status success,
\* failed or another status, or an unsuccessful result.
StatusOutcomes == {"success", "failed", "pending", "unsuccessful"}

\* A bug StatusState could have: a failed task is not reported and the state
\* is left as it is.
StatusStateIgnoresFailed(q, o) ==
  CASE o = "success" ->
         VideoStateOf("success", "", "https://v/" \o q.taskId \o ".mp4", "", q.provider, "")
    [] o = "failed" -> videoState
    [] o = "unsuccessful" ->
         VideoStateOf("failed", "", "", "status unavailable", q.provider, "")

\* The state the callback sets for a result that ends the polling.
StatusState(q, o) ==
  CASE o = "success" ->
         VideoStateOf("success", "", "https://v/" \o q.taskId \o ".mp4", "", q.provider, "")
    [] o = "failed" ->
         VideoStateOf("failed", "", "", "Video generation failed", q.provider, "")
    [] o = "unsuccessful" ->
         VideoStateOf("failed", "", "", "status unavailable", q.provider, "")

\* await getVideoTaskStatus(...) settles with o, and the rest of the callback
\* runs.
StatusAnsweredWith(q, o) ==
  /\ q \in inflight
  /\ inflight' = inflight \ {q}
  /\ IF o = "pending"
     THEN UNCHANGED <<videoState, effect, pollingRef, intervals, used, closedTasks>>
     ELSE SetVideoState(StatusState(q, o), {q.interval}, used)
  /\ UNCHANGED gens
  /\ UNCHANGED <<extractVars, dispatchVars, flowVars>>

StatusAnswered(q) == \E o \in StatusOutcomes : StatusAnsweredWith(q, o)

\* resetVideo()
ResetVideo ==
  /\ used.resets < MaxResets
  /\ SetVideoState(Idle, {pollingRef}, [used EXCEPT !.resets = @ + 1])
  /\ UNCHANGED <<inflight, gens>>
  /\ UNCHANGED <<extractVars, dispatchVars, flowVars>>

VideoNext ==
  \/ \E provider \in Providers, giteeToken \in GiteeTokens : GenerateVideo(provider, giteeToken)
  \/ \E g \in gens : VideoHfSettles(g)
  \/ \E g \in gens : CreateTaskSettles(g)
  \/ \E i \in intervals : Tick(i)
  \/ \E q \in inflight : StatusAnswered(q)
  \/ ResetVideo

SpecVideo == VideoInit /\ [][VideoNext]_vars

\* The task ends: the endpoint reports a status that is not terminal only
\* while further ticks are followed.
StatusAnsweredAtLast(q) ==
  \E o \in StatusOutcomes :
    /\ o = "pending" => used.ticks < MaxTicks
    /\ StatusAnsweredWith(q, o)

VideoNextFair ==
  \/ \E provider \in Providers, giteeToken \in GiteeTokens : GenerateVideo(provider, giteeToken)
  \/ \E g \in gens : VideoHfSettles(g)
  \/ \E g \in gens : CreateTaskSettles(g)
  \/ \E i \in intervals : Tick(i)
  \/ \E q \in inflight : StatusAnsweredAtLast(q)
  \/ ResetVideo

\* The hook with timers that fire as long as they are set and a status
\* endpoint that answers every request and reports the end of the task.
SpecVideoFair ==
  /\ VideoInit
  /\ [][VideoNextFair]_vars
  /\ WF_vars(\E i \in intervals : Tick(i))
  /\ WF_vars(\E q \in inflight : StatusAnsweredAtLast(q))

(***************************************************************************)
(* The flow sessions of lib/utils.ts. Every function awaits getDB() and    *)
(* then the store's request; the requests on the one object store run in   *)
(* the order they were made. What runs after an await is a later step.     *)
(***************************************************************************)
ImageLists == {<<>>, <<"img1">>}

\* A request of the store, made by the function fn.
FlowRequest(request, id, session, images, fn) ==
  [request |-> request, id |-> id, session |-> session, images |-> images, fn |-> fn]

\* saveFlowSession(session) up to its await: db.put(SESSIONS_STORE, session)
saveFlowSession(session) ==
  /\ flowQueue' = Append(flowQueue,
                         FlowRequest("put", session.id, session, <<>>, "saveFlowSession"))
  /\ UNCHANGED <<sessions, flowLog, now>>

\* createFlowSession() up to the await in saveFlowSession.
CreateFlowSession ==
  /\ flowCalls < MaxFlowCalls
  /\ flowCalls' = flowCalls + 1
  /\ saveFlowSession([id |-> FlowId(now), createdAt |-> now, updatedAt |-> now,
                      images |-> <<>>])
  /\ UNCHANGED <<extractVars, dispatchVars, videoVars>>

\* updateFlowSession(sessionId, images) up to its await: db.get(SESSIONS_STORE, sessionId)
UpdateFlowSession(sessionId, images) ==
  /\ flowCalls < MaxFlowCalls
  /\ flowCalls' = flowCalls + 1
  /\ flowQueue' = Append(flowQueue,
                         FlowRequest("get", sessionId, NoSession, images, "updateFlowSession"))
  /\ UNCHANGED <<sessions, flowLog, now>>
  /\ UNCHANGED <<extractVars, dispatchVars, videoVars>>

\* deleteFlowSession(sessionId) up to its await: db.delete(SESSIONS_STORE, sessionId)
DeleteFlowSession(sessionId) ==
  /\ flowCalls < MaxFlowCalls
  /\ flowCalls' = flowCalls + 1
  /\ flowQueue' = Append(flowQueue,
                         FlowRequest("delete", sessionId, NoSession, <<>>, "deleteFlowSession"))
  /\ UNCHANGED <<sessions, flowLog, now>>
  /\ UNCHANGED <<extractVars, dispatchVars, videoVars>>

\* The rest of updateFlowSession, run when its db.get yielded `session`: the
\* requests it adds to those still waiting.
AfterGet(q, session) ==
  IF session # NoSession
  THEN <<FlowRequest("put", session.id,
                     [session EXCEPT !.images = q.images, !.updatedAt = now],
                     <<>>, "updateFlowSession")>>
  ELSE <<>>

\* The store runs the request made first, and the function that awaited it
\* goes on.
FlowRequestRuns ==
  /\ flowQueue # <<>>
  /\ LET q == Head(flowQueue) IN
       /\ flowLog' = Append(flowLog, [request |-> q.request, id |-> q.id, fn |-> q.fn])
       /\ CASE q.request = "get" ->
                 /\ flowQueue' = Tail(flowQueue) \o AfterGet(q, sessions[q.id])
                 /\ UNCHANGED sessions
            [] q.request = "put" ->
                 /\ flowQueue' = Tail(flowQueue)
                 /\ sessions' = [sessions EXCEPT ![q.session.id] = q.session]
            [] q.request = "delete" ->
                 /\ flowQueue' = Tail(flowQueue)
                 /\ sessions' = [sessions EXCEPT ![q.id] = NoSession]
  /\ UNCHANGED <<flowCalls, now>>
  /\ UNCHANGED <<extractVars, dispatchVars, videoVars>>

\* Time passes.
TimePasses ==
  /\ now < MaxNow
  /\ now' = now + 1
  /\ UNCHANGED <<sessions, flowQueue, flowLog, flowCalls>>
  /\ UNCHANGED <<extractVars, dispatchVars, videoVars>>

FlowInit ==
  /\ FlowIdle
  /\ VideoIdle
  /\ NoTraffic
  /\ wireLines = <<>>
  /\ wireText = ""
  /\ outcome = Pending

FlowNext ==
  \/ CreateFlowSession
  \/ \E sessionId \in FlowIds, images \in ImageLists : UpdateFlowSession(sessionId, images)
  \/ \E sessionId \in FlowIds : DeleteFlowSession(sessionId)
  \/ FlowRequestRuns
  \/ TimePasses

SpecFlow == FlowInit /\ [][FlowNext]_vars

(***************************************************************************)
(* What the stream says, read off the lines the backend wrote (not off the *)
(* text): the event a line belongs to is the last one declared before it.  *)
(***************************************************************************)
TerminalNames == {"complete", "error"}

EventLinesBefore(i) == {j \in 1..(i - 1) : wireLines[j].kind = "event"}

DeclaredAt(i) ==
  IF EventLinesBefore(i) = {} THEN ""
  ELSE wireLines[CHOOSE j \in EventLinesBefore(i) : \A k \in EventLinesBefore(i) : k <= j].name

\* The data lines of terminal events.
TerminalDataLines ==
  {i \in DOMAIN wireLines : wireLines[i].kind = "data" /\ DeclaredAt(i) \in TerminalNames}

CompleteEvents == {j \in DOMAIN wireLines : wireLines[j].kind = "event" /\ wireLines[j].name = "complete"}

\* The data lines of the `complete` event declared at line c.
DataLinesOf(c) ==
  {i \in DOMAIN wireLines : /\ i > c
                        /\ wireLines[i].kind = "data"
                        /\ \A j \in (c + 1)..(i - 1) : wireLines[j].kind # "event"}

FirstOf(S) == CHOOSE i \in S : \A j \in S : i <= j

\* Exactly one `complete` event, with decodable data, after progress events only.
OneCompleteEvent ==
  /\ Cardinality(CompleteEvents) = 1
  /\ LET c == FirstOf(CompleteEvents) IN
       /\ \A j \in 1..(c - 1) : wireLines[j].kind = "event" => wireLines[j].name \notin TerminalNames
       /\ DataLinesOf(c) # {}
       /\ JSONParse(wireLines[FirstOf(DataLinesOf(c))].data).ok

CompletePayload ==
  JSONParse(wireLines[FirstOf(DataLinesOf(FirstOf(CompleteEvents)))].data).value

\* C1: for a stream with exactly one `complete` event whose data decodes,
\* preceded by progress events only (with or without data lines of their
\* own), the extractor returns the decoded payload of that event's data line.
C1_CompleteReturnsPayload ==
  (outcome # Pending /\ OneCompleteEvent) => outcome = Returned(CompletePayload)

\* A progress event with a data line of its own precedes the `complete`
\* event, and the extractor returned the array payload.
C1_Witness ==
  /\ outcome.kind = "return"
  /\ OneCompleteEvent
  /\ FirstOf(CompleteEvents) = 3
  /\ wireLines[1].kind = "event" /\ wireLines[2].kind = "data"
  /\ outcome.value.t = "arr"

\* The first terminal event of the stream is an `error` event whose data
\* is {"error": X} for a string X.
ErrorFieldOnly ==
  /\ TerminalDataLines # {}
  /\ LET i == FirstOf(TerminalDataLines)
         p == JSONParse(wireLines[i].data)
     IN  /\ DeclaredAt(i) = "error"
         /\ p.ok
         /\ p.value.t = "obj"
         /\ DOMAIN p.value.v = {"error"}
         /\ p.value.v["error"].t = "str"

ErrorFieldText == JSONParse(wireLines[FirstOf(TerminalDataLines)].data).value.v["error"].v

\* C2 as stated: whenever the first terminal event is an `error` event with
\* data {"error": X}, for every string X, the extractor fails with message X.
C2_Original ==
  (outcome # Pending /\ ErrorFieldOnly) =>
    (outcome.kind = "throw" /\ outcome.message = ErrorFieldText)

\* C2, amended: whenever the first terminal event is an `error` event with
\* data {"error": X} for a non-empty string X, the extractor fails with an
\* error whose message is exactly X.
C2_NonEmptyErrorField ==
  (outcome # Pending /\ ErrorFieldOnly /\ ErrorFieldText # "") =>
    (outcome.kind = "throw" /\ outcome.err = "Error" /\ outcome.message = ErrorFieldText)

\* An `error` event with data {"error":"X"} after a progress event made the
\* extractor fail.
C2_Witness ==
  /\ outcome.kind = "throw"
  /\ ErrorFieldOnly
  /\ ErrorFieldText = "X"
  /\ FirstOf(TerminalDataLines) > 2
  /\ wireLines[1].kind = "event"

\* C3: a stream with no data line of a `complete` or `error` event makes the
\* extractor fail with the "unexpected response" error, and what the message
\* quotes of the input is its first 300 characters, or all of it when it is
\* shorter.
C3_NoTerminalBoundedPrefix ==
  (outcome # Pending /\ TerminalDataLines = {}) =>
    /\ outcome.kind = "throw"
    /\ outcome.err = "Error"
    /\ StartsWith(outcome.message, "Unexpected SSE response: ")
    /\ LET quoted == SubstringFrom(outcome.message, Len("Unexpected SSE response: "))
       IN  /\ Len(quoted) = Min(Len(wireText), 300)
           /\ StartsWith(wireText, quoted)

\* A stream longer than 300 characters without a terminal event was refused.
C3_Witness ==
  /\ outcome.kind = "throw"
  /\ TerminalDataLines = {}
  /\ Len(wireText) > 300
  /\ \E i \in DOMAIN wireLines : wireLines[i].kind = "data"

(***************************************************************************)
(* POST /generate as its clients see it: what a request asks for, read off *)
(* the request itself.                                                     *)
(***************************************************************************)
Handled(r) == pc[r] \notin {"absent", "arrived"}

OnGenerate(r) == req[r].route = "generate"

\* The body is a value whose fields can be read (anything decodable but null).
Readable(r) == req[r].body \notin {InvalidJson, JNull}

HasField(r, name) == req[r].body.t = "obj" /\ name \in DOMAIN req[r].body.v

\* The provider the request names, "" when it names none.
NamedProvider(r) == IF HasField(r, "provider") THEN req[r].body.v["provider"].v ELSE ""

\* The provider that serves the request: the named one, gitee when none is named.
ServingProvider(r) == IF NamedProvider(r) = "" THEN "gitee" ELSE NamedProvider(r)

KnownProviders == {"gitee", "huggingface", "modelscope"}

RequiredHeader(r) ==
  CASE ServingProvider(r) = "gitee" -> "X-API-Key"
    [] ServingProvider(r) = "modelscope" -> "X-MS-Token"
    [] OTHER -> ""

\* The header is not sent, or sent empty.
NotSent(r, name) == name \notin DOMAIN req[r].headers \/ req[r].headers[name] = ""

\* The six checks, each on its own: whether the request fails it.
FailsCheck(r, k) ==
  CASE k = 1 -> req[r].body = InvalidJson
    [] k = 2 -> Readable(r) /\ ServingProvider(r) \notin KnownProviders
    [] k = 3 -> Readable(r) /\ RequiredHeader(r) # "" /\ NotSent(r, RequiredHeader(r))
    [] k = 4 -> Readable(r) /\ ~validatePrompt(Field(req[r].body, "prompt")).valid
    [] k = 5 -> Readable(r) /\ HasField(r, "width") /\ req[r].body.v["width"].v % 8 # 0
    [] k = 6 -> Readable(r) /\ HasField(r, "steps") /\ req[r].body.v["steps"].v < 1

FailedChecks(r) == {k \in 1..6 : FailsCheck(r, k)}

\* The status each check answers with, and how its message starts.
CheckStatus(k) == IF k = 3 THEN 401 ELSE 400

CheckMessage(r, k) ==
  CASE k = 1 -> "Invalid JSON body"
    [] k = 2 -> "Invalid provider: "
    [] k = 3 -> RequiredHeader(r) \o " is required"
    [] k = 4 -> validatePrompt(Field(req[r].body, "prompt")).error
    [] k = 5 -> validateDimensions(WidthOf(req[r].body), HeightOf(req[r].body)).error
    [] k = 6 -> validateSteps(StepsOf(req[r].body)).error

\* C4: POST /generate answers with the response of the first check that
\* fails, in the order JSON, provider, auth header, prompt, dimensions,
\* steps, whatever the later checks would say; when no check fails the
\* adapter is called.
C4_FirstFailingCheckDecides ==
  \A r \in Reqs :
    (OnGenerate(r) /\ Handled(r) /\ req[r].body # JNull) =>
      IF FailedChecks(r) # {}
      THEN LET k == FirstOf(FailedChecks(r)) IN
           /\ pc[r] = "done"
           /\ resp[r].kind = "json"
           /\ resp[r].status = CheckStatus(k)
           /\ StartsWith(resp[r].error, CheckMessage(r, k))
           /\ invoked[r] = 0
      ELSE invoked[r] = 1

\* A request without its required auth header and with an invalid prompt,
\* width and steps was answered 401.
C4_Witness ==
  \E r \in Reqs :
    /\ OnGenerate(r) /\ pc[r] = "done"
    /\ FailedChecks(r) = {3, 4, 5, 6}
    /\ resp[r].status = 401

\* C5: POST /generate for a provider that requires auth, sent without that
\* provider's header or with an empty one, is answered 401 with a message
\* naming the header, and no adapter is invoked for it, nor any backend called.
C5_MissingAuthIs401 ==
  \A r \in Reqs :
    (OnGenerate(r) /\ Readable(r) /\ ServingProvider(r) \in KnownProviders
       /\ PROVIDER_CONFIGS[ServingProvider(r)].requiresAuth
       /\ NotSent(r, PROVIDER_CONFIGS[ServingProvider(r)].authHeader)) =>
      /\ invoked[r] = 0
      /\ calls[r] = <<>>
      /\ pc[r] \in {"arrived", "done"}
      /\ pc[r] = "done" =>
           /\ resp[r].kind = "json"
           /\ resp[r].status = 401
           /\ StartsWith(resp[r].error, PROVIDER_CONFIGS[ServingProvider(r)].authHeader)

\* A request for gitee with an empty X-API-Key header was answered 401.
C5_Witness ==
  \E r \in Reqs :
    /\ OnGenerate(r) /\ pc[r] = "done"
    /\ NamedProvider(r) = "gitee"
    /\ "X-API-Key" \in DOMAIN req[r].headers
    /\ resp[r].status = 401
    /\ resp[r].error = "X-API-Key is required for Gitee AI"

InvalidProviderReply(r, name) ==
  /\ pc[r] = "done"
  /\ resp[r] = ErrorReply(400, "Invalid provider: " \o name)
  /\ invoked[r] = 0

\* The fallback provider serves the request: its credential is asked for,
\* and with it the request goes to its adapter, not to the HuggingFace backend.
ServedByGitee(r) ==
  /\ ~StartsWith(resp[r].error, "Invalid provider")
  /\ calls[r] = <<>>
  /\ NotSent(r, "X-API-Key") => resp[r] = ErrorReply(401, "X-API-Key is required for Gitee AI")
  /\ (~NotSent(r, "X-API-Key") /\ FailedChecks(r) = {}) => invoked[r] = 1

\* C6 as stated: every `provider` value the registry does not know is
\* answered 400 naming it; an absent `provider` is served by gitee.
C6_Original ==
  \A r \in Reqs :
    (OnGenerate(r) /\ Handled(r) /\ req[r].body.t = "obj") =>
      /\ (HasField(r, "provider") /\ NamedProvider(r) \notin KnownProviders)
           => InvalidProviderReply(r, NamedProvider(r))
      /\ ~HasField(r, "provider") => ServedByGitee(r)

\* C6, amended: every non-empty `provider` value the registry does not know
\* is answered 400 with a message naming it; when `provider` is absent or
\* empty the request is served by gitee instead of being rejected.
C6_UnknownProvider400 ==
  \A r \in Reqs :
    (OnGenerate(r) /\ Handled(r) /\ req[r].body.t = "obj") =>
      /\ (NamedProvider(r) # "" /\ NamedProvider(r) \notin KnownProviders)
           => InvalidProviderReply(r, NamedProvider(r))
      /\ NamedProvider(r) = "" => ServedByGitee(r)

\* An unknown provider was refused by name, with a credential sent and
\* nothing else wrong.
C6_Witness ==
  \E r \in Reqs :
    /\ OnGenerate(r)
    /\ NamedProvider(r) = "bogus"
    /\ FailedChecks(r) = {2}
    /\ resp[r] = ErrorReply(400, "Invalid provider: bogus")

\* C7 as stated: whatever the body, POST /generate ends by returning a
\* response with status 200, 400, 401 or 500; no exception leaves the handler.
C7_NoEscape ==
  \A r \in Reqs :
    (OnGenerate(r) /\ pc[r] = "done") =>
      (resp[r].kind = "json" /\ resp[r].status \in {200, 400, 401, 500})

(***************************************************************************)
(* What each backend answer amounts to for the caller, written out answer  *)
(* by answer.                                                              *)
(***************************************************************************)
Success(url, seed) == [kind |-> "success", url |-> url, seed |-> seed, message |-> ""]
Failure(message)   == [kind |-> "failure", url |-> "", seed |-> JUndef, message |-> message]
Unsettled          == [kind |-> "unsettled", url |-> "", seed |-> JUndef, message |-> ""]

\* What the HuggingFace adapter's generate ends with, for the answers the
\* backend gave; `sent` is the seed the adapter sent.
HfExpected(a, sent) ==
  CASE a = <<"network">> -> Failure("fetch failed")
    [] a = <<"status">>  -> Failure("Queue request failed: 429 - Too Many Requests")
    [] a = <<"notjson">> -> Failure(SyntaxErrorMessage)
    [] a = <<"noid">>    -> Failure("No event_id returned")
    [] a = <<"ok", "network">> -> Failure("fetch failed")
    [] a = <<"ok", "event: complete\ndata: [{\"url\": \"https://x/y.png\"}, 42]\n">>
         -> Success("https://x/y.png", JNum(42))
    [] a = <<"ok", "event: heartbeat\ndata: null\n\nevent: complete\ndata: [{\"url\":\"https://x/y.png\"}]\n\n">>
         -> Success("https://x/y.png", sent)
    [] a = <<"ok", "event: complete\ndata: [{\"url\":\"https://x/y.png\"},\"s\"]\n">>
         -> Success("https://x/y.png", sent)
    [] a = <<"ok", "event: complete\ndata: [{\"url\":\"\"},42]\n">>
         -> Failure("No image returned from HuggingFace")
    [] a = <<"ok", "event: complete\ndata: [{}]\n">>
         -> Failure("No image returned from HuggingFace")
    [] a = <<"ok", "event: complete\ndata: []\n">>
         -> Failure("No image returned from HuggingFace")
    [] a = <<"ok", "event: complete\ndata: null\n">> -> Failure(NullRead)
    [] a = <<"ok", "event: error\ndata: {\"error\":\"quota exceeded\"}\n">>
         -> Failure("quota exceeded")
    [] a = <<"ok", "event: heartbeat\ndata: null\n\n">>
         -> Failure("Unexpected SSE response: event: heartbeat\ndata: null\n\n")
    [] OTHER -> Unsettled

\* The seed the request asks for, or the one the adapter drew.
SentSeed(r) ==
  IF HasField(r, "seed") THEN req[r].body.v["seed"]
  ELSE CHOOSE x \in {JNum(n) : n \in RandomSeeds} : x = call[r].seed

\* C8: once every check of POST /generate has passed, the response is 200
\* with the adapter's result when generate succeeds, 500 with the error's
\* message when it fails with an error, and 500 with the generic message
\* when what is thrown is not an Error.
C8_AdapterOutcomeDecides ==
  \A r \in Reqs :
    (OnGenerate(r) /\ pc[r] = "done" /\ invoked[r] = 1) =>
      IF ServingProvider(r) = "huggingface"
      THEN LET e == HfExpected(answer[r], SentSeed(r)) IN
           /\ e.kind = "success" => resp[r] = ResultReply(e.url, e.seed)
           /\ e.kind = "failure" => resp[r] = ErrorReply(500, e.message)
           /\ e.kind # "unsettled"
      ELSE /\ answer[r] = <<"result">> =>
                resp[r] = ResultReply("https://cdn.example/out.png", JNum(11))
           /\ answer[r] = <<"error">> => resp[r] = ErrorReply(500, "API error: 503")
           /\ answer[r] = <<"nonerror">> => resp[r] = ErrorReply(500, "Image generation failed")

\* The backend reported an error in its stream and the client got it as a 500.
C8_Witness ==
  \E r \in Reqs :
    /\ OnGenerate(r) /\ pc[r] = "done" /\ invoked[r] = 1
    /\ Len(answer[r]) = 2
    /\ resp[r] = ErrorReply(500, "quota exceeded")

\* C9: a request makes at most one submission POST and at most one result
\* GET, the GET only after its submission was accepted; a request answered
\* 400 or 401 makes no backend call; after a failed submission or a failed
\* result nothing is sent again.
C9_OneSubmissionOneFetch ==
  \A r \in Reqs :
    /\ Len(calls[r]) <= 2
    /\ Len(calls[r]) >= 1 => calls[r][1].method = "POST"
    /\ Len(calls[r]) = 2 =>
         /\ calls[r][2].method = "GET"
         /\ Len(answer[r]) >= 1 /\ answer[r][1] = "ok"
         /\ calls[r][2].url = calls[r][1].url \o "/" \o call[r].eventId
    /\ resp[r].status \in {400, 401} => calls[r] = <<>>
    /\ (Len(answer[r]) = 1 /\ answer[r][1] \in {"network", "status", "notjson", "noid"}) =>
         (pc[r] = "done" /\ Len(calls[r]) = 1)
    /\ (Len(answer[r]) = 2 /\ resp[r].status = 500) =>
         (pc[r] = "done" /\ Len(calls[r]) = 2)

\* Two requests are over, one after a refused submission and one after an
\* error in the result stream; each sent what it had to, once.
C9_Witness ==
  /\ pc["r1"] = "done" /\ answer["r1"] = <<"status">> /\ Len(calls["r1"]) = 1
  /\ pc["r2"] = "done" /\ Len(answer["r2"]) = 2 /\ resp["r2"].status = 500
  /\ Len(calls["r2"]) = 2
  /\ req["r2"].route = "upscale"

\* The url a POST /upscale request names is on the allow-list.
AllowedUrl(r) ==
  /\ HasField(r, "url")
  /\ req[r].body.v["url"].t = "str"
  /\ isAllowedImageUrl(req[r].body.v["url"].v)

\* C10: POST /upscale with a url that is not on the allow-list is answered
\* 400 and reaches no backend, whatever the scale and the token; every
\* submission of POST /upscale carries a url the allow-list accepted.
C10_UpscaleAllowListFirst ==
  \A r \in Reqs :
    req[r].route = "upscale" =>
      /\ (Handled(r) /\ Readable(r) /\ ~AllowedUrl(r)) =>
           /\ pc[r] = "done"
           /\ resp[r].kind = "json" /\ resp[r].status = 400
      /\ ~AllowedUrl(r) => calls[r] = <<>>
      /\ calls[r] # <<>> => calls[r][1].data[1].v["path"] = req[r].body.v["url"]

\* A url of an untrusted host that only mentions a trusted one was refused,
\* with a valid scale and a token sent.
C10_Witness ==
  \E r \in Reqs :
    /\ req[r].route = "upscale" /\ pc[r] = "done"
    /\ HasField(r, "url") /\ req[r].body.v["url"] = JStr("https://evil.example/?u=.hf.space")
    /\ HasField(r, "scale") /\ req[r].body.v["scale"] = JNum(2)
    /\ "X-HF-Token" \in DOMAIN req[r].headers
    /\ resp[r] = ErrorReply(400, "URL not allowed")

(***************************************************************************)
(* The HuggingFace adapter as its callers see it, on either route.         *)
(***************************************************************************)
\* The request is served by HuggingFaceProvider.generate.
OnHuggingFace(r) ==
  \/ req[r].route = "generate-hf"
  \/ (OnGenerate(r) /\ Readable(r) /\ ServingProvider(r) = "huggingface")

\* The second element of the result array each stream of the backend
\* carries, when it is a number.
ReportedSeed(text) ==
  CASE text = "event: complete\ndata: [{\"url\": \"https://x/y.png\"}, 42]\n" -> JNum(42)
    [] text = "event: complete\ndata: [{\"url\":\"\"},42]\n" -> JNum(42)
    [] OTHER -> JUndef

\* The seed the request asks for: a seed field that is not null.
RequestedSeed(r) ==
  IF HasField(r, "seed") /\ req[r].body.v["seed"] # JNull THEN req[r].body.v["seed"]
  ELSE JUndef

\* C11: a successful HuggingFace generation returns as seed the second
\* element of the backend's result array when that is a number, otherwise
\* the requested seed (0 included), or the seed the adapter drew when none
\* was requested, which is the one it sent to the backend.
C11_BackendSeedWins ==
  \A r \in Reqs :
    (OnHuggingFace(r) /\ pc[r] = "done" /\ resp[r].status = 200) =>
      /\ Len(answer[r]) = 2
      /\ resp[r].seed =
           IF ReportedSeed(answer[r][2]) # JUndef THEN ReportedSeed(answer[r][2])
           ELSE IF RequestedSeed(r) # JUndef THEN RequestedSeed(r)
           ELSE call[r].seed
      /\ RequestedSeed(r) = JUndef => call[r].seed \in {JNum(n) : n \in RandomSeeds}
      /\ call[r].seed \in {calls[r][1].data[i] : i \in DOMAIN calls[r][1].data}

\* Seed 7 was requested, the backend reported 42, and 42 was returned.
C11_Witness ==
  \E r \in Reqs :
    /\ OnHuggingFace(r) /\ pc[r] = "done"
    /\ RequestedSeed(r) = JNum(7)
    /\ Len(answer[r]) = 2
    /\ ReportedSeed(answer[r][2]) = JNum(42)
    /\ resp[r] = ResultReply("https://x/y.png", JNum(42))

\* The streams whose result has no url in its first element: an empty url,
\* a first element without url, an empty array.
NoUrlStreams ==
  { "event: complete\ndata: [{\"url\":\"\"},42]\n",
    "event: complete\ndata: [{}]\n",
    "event: complete\ndata: []\n" }

\* C12: when the result the backend streams has no url in its first element
\* the request is answered 500 with the "no image returned" error, on the
\* generate paths and on the upscale path; no response with status 200 has
\* an empty url.
C12_NoUrlIs500 ==
  \A r \in Reqs :
    /\ (pc[r] = "done" /\ Len(answer[r]) = 2 /\ answer[r][2] \in NoUrlStreams) =>
         resp[r] = ErrorReply(500, IF req[r].route = "upscale" THEN "No image returned"
                                   ELSE "No image returned from HuggingFace")
    /\ (resp[r].kind = "json" /\ resp[r].status = 200) => resp[r].url # ""

\* Both paths met a result without url: an upscale answered with an object
\* without url, a generation with an empty url.
C12_Witness ==
  /\ req["r1"].route = "upscale" /\ pc["r1"] = "done"
  /\ answer["r1"] = <<"ok", "event: complete\ndata: [{}]\n">>
  /\ resp["r1"] = ErrorReply(500, "No image returned")
  /\ OnHuggingFace("r2") /\ pc["r2"] = "done"
  /\ answer["r2"] = <<"ok", "event: complete\ndata: [{\"url\":\"\"},42]\n">>
  /\ resp["r2"].status = 500

\* The model a request to the HuggingFace adapter names, "" when none.
NamedModel(r) == IF HasField(r, "model") THEN req[r].body.v["model"].v ELSE ""

DefaultSubmissionUrl == "https://z-image-turbo.hf.space/gradio_api/call/generate_image"

\* C13 as stated: whenever HuggingFaceProvider.generate is called with a
\* non-empty model id that is not a known model, it submits the job to the
\* default model's space and endpoint, and fails, if it does, only after
\* the submission.
C13_UnknownModelFallsBack ==
  \A r \in Reqs :
    (OnHuggingFace(r) /\ invoked[r] = 1 /\ NamedModel(r) # "" /\ NamedModel(r) \notin ModelIds) =>
      /\ calls[r] # <<>>
      /\ calls[r][1].url = DefaultSubmissionUrl

(***************************************************************************)
(* Requests side by side.                                                  *)
(***************************************************************************)
\* The request got as far as calling the job client.
Submitted(r) == pc[r] \in {"submitting", "fetching"} \/ (pc[r] = "done" /\ Len(answer[r]) >= 1
                                                         /\ answer[r][1] \notin {"result", "error", "nonerror"})

\* The prompt or url of the request is what its submission carries.
CarriesOwnInput(r) ==
  IF req[r].route = "upscale"
  THEN calls[r][1].data[1].v["path"] = req[r].body.v["url"]
  ELSE calls[r][1].data[1] = req[r].body.v["prompt"]

\* C14: every request that reaches the job client sends its own submission;
\* it fetches the result with the job id the backend returned to that
\* submission, which no other request uses; and its response is made of the
\* result the backend gave to its own fetch.
C14_IndependentJobs ==
  \A r \in Reqs :
    /\ Submitted(r) => (Len(calls[r]) >= 1 /\ calls[r][1].method = "POST" /\ CarriesOwnInput(r))
    /\ Len(calls[r]) = 2 =>
         /\ call[r].eventId # ""
         /\ calls[r][2].url = calls[r][1].url \o "/" \o call[r].eventId
         /\ \A s \in Reqs \ {r} :
              Len(calls[s]) = 2 => /\ call[s].eventId # call[r].eventId
                                   /\ calls[s][2].url # calls[r][2].url
    /\ (pc[r] = "done" /\ Len(answer[r]) = 2 /\ OnHuggingFace(r)) =>
         LET e == HfExpected(answer[r], IF RequestedSeed(r) # JUndef THEN RequestedSeed(r)
                                        ELSE call[r].seed)
         IN  /\ e.kind = "success" => resp[r] = ResultReply(e.url, e.seed)
             /\ e.kind = "failure" => resp[r] = ErrorReply(500, e.message)

\* Two identical requests ran side by side, each with a job of its own; one
\* got an image and the other the backend's error.
C14_Witness ==
  /\ req["r1"] = req["r2"] /\ req["r1"].route = "generate-hf"
  /\ pc["r1"] = "done" /\ pc["r2"] = "done"
  /\ Len(calls["r1"]) = 2 /\ Len(calls["r2"]) = 2
  /\ call["r1"].eventId = "job2" /\ call["r2"].eventId = "job1"
  /\ resp["r1"].status = 200
  /\ resp["r2"] = ErrorReply(500, "quota exceeded")

(***************************************************************************)
(* The extractor, line by line.                                            *)
(***************************************************************************)
\* The stream cut after line i.
CutAfter(i) == Join(SubSeq(wireLines, 1, i))

\* C17: the first data line that belongs to a terminal event decides: a
\* `complete` event returns that line's decoded data (or fails on it if it
\* does not decode), an `error` event fails; nothing after that line changes
\* the outcome, and data lines of progress events or before any event
\* declaration never decide. Without such a line no value is returned.
C17_FirstTerminalDecides ==
  outcome # Pending =>
    IF TerminalDataLines = {}
    THEN outcome.kind = "throw" /\ StartsWith(outcome.message, "Unexpected SSE response: ")
    ELSE LET i == FirstOf(TerminalDataLines)
             p == JSONParse(wireLines[i].data)
         IN  /\ outcome = extractCompleteEventData(CutAfter(i))
             /\ (DeclaredAt(i) = "complete" /\ p.ok) => outcome = Returned(p.value)
             /\ (DeclaredAt(i) = "complete" /\ ~p.ok) =>
                  (outcome.kind = "throw" /\ outcome.err = "SyntaxError")
             /\ DeclaredAt(i) = "error" =>
                  (outcome.kind = "throw" /\ outcome.err = "Error"
                     /\ ~StartsWith(outcome.message, "Unexpected SSE response: "))

\* An `error` event came first and a `complete` event with a good payload
\* after it: the extractor failed with the error's message.
C17_Witness ==
  /\ Len(wireLines) = 4
  /\ wireLines[1].kind = "event" /\ wireLines[1].name = "error"
  /\ wireLines[2].data = "{\"error\":\"X\"}"
  /\ wireLines[3].kind = "event" /\ wireLines[3].name = "complete"
  /\ wireLines[4].kind = "data" /\ JSONParse(wireLines[4].data).ok
  /\ outcome = Thrown("Error", "X")

\* The first terminal event is an `error` event.
ErrorEventFirst == TerminalDataLines # {} /\ DeclaredAt(FirstOf(TerminalDataLines)) = "error"

\* The data text of the first terminal event's data line.
FirstTerminalData == wireLines[FirstOf(TerminalDataLines)].data

\* The fields of the data of each decodable data line of the vocabulary,
\* and the text JSON.stringify writes for the data.
ErrorFieldOf(data) ==
  CASE data = "{\"error\":\"X\"}" -> [present |-> TRUE, text |-> "X"]
    [] data = "{\"error\":\"X\",\"message\":\"M\"}" -> [present |-> TRUE, text |-> "X"]
    [] data = "{\"error\":\"\"}" -> [present |-> TRUE, text |-> ""]
    [] OTHER -> [present |-> FALSE, text |-> ""]

MessageFieldOf(data) ==
  CASE data = "{\"message\":\"M\"}" -> [present |-> TRUE, text |-> "M"]
    [] data = "{\"error\":\"X\",\"message\":\"M\"}" -> [present |-> TRUE, text |-> "M"]
    [] OTHER -> [present |-> FALSE, text |-> ""]

ReEncoded(data) ==
  CASE data = "[{\"url\": \"https://x/y.png\"}, 42]" -> "[{\"url\":\"https://x/y.png\"},42]"
    [] OTHER -> data

\* C18 as stated: for an `error` event with decodable data, whenever an
\* `error` field is present the message of the signalled error is that field.
C18_Original ==
  (outcome # Pending /\ ErrorEventFirst /\ JSONParse(FirstTerminalData).ok
     /\ ErrorFieldOf(FirstTerminalData).present) =>
    outcome = Thrown("Error", ErrorFieldOf(FirstTerminalData).text)

\* C18, amended: for an `error` event with decodable data the message is
\* the `error` field when it is present and not empty, else the `message`
\* field when it is present and not empty, else the data re-encoded as JSON
\* text.
C18_ErrorMessagePriority ==
  (outcome # Pending /\ ErrorEventFirst /\ JSONParse(FirstTerminalData).ok) =>
    outcome = Thrown("Error",
                IF ErrorFieldOf(FirstTerminalData).text # ""
                THEN ErrorFieldOf(FirstTerminalData).text
                ELSE IF MessageFieldOf(FirstTerminalData).text # ""
                THEN MessageFieldOf(FirstTerminalData).text
                ELSE ReEncoded(FirstTerminalData))

\* An `error` event whose data has both fields failed with the `error` field.
C18_Witness ==
  /\ ErrorEventFirst
  /\ FirstTerminalData = "{\"error\":\"X\",\"message\":\"M\"}"
  /\ outcome = Thrown("Error", "X")

\* C19 as stated: for an `error` event whose data does not decode the
\* extractor fails with the data text as message.
C19_Original ==
  (outcome # Pending /\ ErrorEventFirst /\ ~JSONParse(FirstTerminalData).ok) =>
    outcome = Thrown("Error", FirstTerminalData)

\* C19, amended: for an `error` event whose data does not decode the
\* extractor fails, with the trimmed data text as message when that is not
\* empty and with 'Unknown SSE error' when it is; whatever the data of an
\* `error` event, the extractor never returns a value.
C19_UndecodableErrorFails ==
  (outcome # Pending /\ ErrorEventFirst) =>
    /\ outcome.kind = "throw" /\ outcome.err = "Error"
    /\ ~StartsWith(outcome.message, "Unexpected SSE response: ")
    /\ ~JSONParse(FirstTerminalData).ok =>
         outcome.message = IF FirstTerminalData # "" THEN FirstTerminalData
                           ELSE "Unknown SSE error"

\* An `error` event with data that is no JSON, followed by a `complete`
\* event, failed with that data as message.
C19_Witness ==
  /\ ErrorEventFirst
  /\ FirstTerminalData = "not json"
  /\ \E j \in DOMAIN wireLines : j > FirstOf(TerminalDataLines) /\ wireLines[j].kind = "event"
                                /\ wireLines[j].name = "complete"
  /\ outcome = Thrown("Error", "not json")

(***************************************************************************)
(* Refused submissions.                                                    *)
(***************************************************************************)
\* C20: when the submission is answered with a non-success status the
\* request fails with an error that carries the status code (and, in the
\* provider's client, the start of the response text); when it is answered
\* without an event id the request fails with 'No event_id returned'. In
\* both cases the only backend request made is the submission, and no
\* result stream is ever read.
C20_SubmissionRefused ==
  \A r \in Reqs :
    /\ (Len(answer[r]) >= 1 /\ answer[r][1] = "status") =>
         /\ pc[r] = "done"
         /\ resp[r] = ErrorReply(500, IF req[r].route = "upscale"
                                      THEN "Queue request failed: 429"
                                      ELSE "Queue request failed: 429 - Too Many Requests")
         /\ Len(calls[r]) = 1 /\ calls[r][1].method = "POST"
         /\ Len(answer[r]) = 1
    /\ (Len(answer[r]) >= 1 /\ answer[r][1] = "noid") =>
         /\ pc[r] = "done"
         /\ resp[r] = ErrorReply(500, "No event_id returned")
         /\ Len(calls[r]) = 1 /\ calls[r][1].method = "POST"
         /\ Len(answer[r]) = 1

\* A generation was refused with status 429 and an upscale was answered
\* without an event id.
C20_Witness ==
  /\ OnHuggingFace("r1") /\ answer["r1"] = <<"status">>
  /\ resp["r1"] = ErrorReply(500, "Queue request failed: 429 - Too Many Requests")
  /\ req["r2"].route = "upscale" /\ answer["r2"] = <<"noid">>
  /\ resp["r2"] = ErrorReply(500, "No event_id returned")

(***************************************************************************)
(* The poll loop of useVideoGenerator.                                     *)
(***************************************************************************)
\* C15: whatever the sequence of generateVideo calls, resetVideo calls, timer
\* ticks and status responses, at most one poll interval is active at any
\* time, the one of the effect's last run; so no task has two of them.
C15_OnePollLoop ==
  /\ Cardinality(intervals) <= 1
  /\ \A a, b \in intervals : a.taskId = b.taskId => a = b
  /\ \A a \in intervals : a.id = effect.interval /\ a.id = pollingRef

\* A second generation replaced the first one's poll loop while a status
\* request of the first was still awaited: one interval, the second task's.
C15_Witness ==
  /\ videoState.status = "polling" /\ videoState.taskId = "task2"
  /\ \E q \in inflight : q.taskId = "task1"
  /\ intervals # {}
  /\ \A a \in intervals : a.taskId = "task2" /\ a.id = 2

PayloadModel(r) == IF NamedModel(r) \in ModelIds THEN NamedModel(r) ELSE "z-image-turbo"

\* Where each model's argument list has the seed.
SeedPosition(m) ==
  CASE m = "z-image-turbo" -> 5
    [] m = "qwen-image-fast" -> 2
    [] m = "ovis-image" -> 4
    [] m = "flux-1-schnell" -> 2

\* The adapter generated the seed of a submission it sent.
GeneratedSeed(r) == OnHuggingFace(r) /\ calls[r] # <<>> /\ RequestedSeed(r) = JUndef

\* C22 as stated: a generated seed is an integer greater than 0 and below
\* 2147483647.
C22_Original ==
  \A r \in Reqs :
    GeneratedSeed(r) =>
      (call[r].seed.t = "num" /\ call[r].seed.v > 0 /\ call[r].seed.v < 2147483647)

\* C22, amended: a generated seed is an integer from 0 (included) to
\* 2147483646; it is the seed argument of the model's payload, and the seed
\* of the result when the backend reports none.
C22_GeneratedSeedRange ==
  \A r \in Reqs :
    GeneratedSeed(r) =>
      /\ call[r].seed.t = "num"
      /\ call[r].seed.v >= 0 /\ call[r].seed.v <= 2147483646
      /\ Len(calls[r][1].data) = 6
      /\ calls[r][1].data[SeedPosition(PayloadModel(r))] = call[r].seed
      /\ (pc[r] = "done" /\ resp[r].status = 200 /\ ReportedSeed(answer[r][2]) = JUndef) =>
           resp[r].seed = call[r].seed

\* A request without seed for a model with its own argument list got the
\* largest seed generated, sent it fourth, and had it back in the result.
C22_Witness ==
  \E r \in Reqs :
    /\ GeneratedSeed(r) /\ NamedModel(r) = "ovis-image"
    /\ calls[r][1].data[4] = JNum(2147483646)
    /\ pc[r] = "done"
    /\ resp[r] = ResultReply("https://x/y.png", JNum(2147483646))

\* The hosted space and the endpoint of each model.
SpaceOf(m) == "https://" \o m \o ".hf.space"

EndpointOf(m) ==
  CASE m \in {"z-image-turbo", "qwen-image-fast"} -> "generate_image"
    [] m = "ovis-image" -> "generate"
    [] m = "flux-1-schnell" -> "infer"

\* C23 as stated: every submission of HuggingFaceProvider.generate goes to
\* the space and the endpoint of one and the same model, the named model or
\* the default model z-image-turbo.
C23_SpaceAndConfigAgree ==
  \A r \in Reqs :
    (OnHuggingFace(r) /\ calls[r] # <<>>) =>
      \E m \in {NamedModel(r), "z-image-turbo"} \cap ModelIds :
        calls[r][1].url = SpaceOf(m) \o "/gradio_api/call/" \o EndpointOf(m)

(***************************************************************************)
(* How a request ends.                                                     *)
(***************************************************************************)
\* The request waits for the backend: for the submission's answer or for
\* the result stream to be closed.
Waiting(r) == pc[r] \in {"submitting", "fetching"}

\* C21: with a backend that answers, every POST /generate request that
\* passed its checks ends, with a response that is then never replaced; and
\* a request that waits for the backend leaves the wait only by an answer
\* of the backend: nothing else (no timeout, no poll) ends or repeats it.
C21_EndsWhenBackendAnswers ==
  /\ \A r \in Reqs :
       (OnGenerate(r) /\ invoked[r] = 1) ~> (pc[r] = "done" /\ resp[r].kind = "json")
  /\ [][\A r \in Reqs :
          /\ pc[r] = "done" => (pc'[r] = "done" /\ resp'[r] = resp[r] /\ calls'[r] = calls[r])
          /\ pc[r] # "done" => resp[r] = NoResponse
          /\ (Waiting(r) /\ (pc'[r] # pc[r] \/ calls'[r] # calls[r])) =>
               Len(answer'[r]) = Len(answer[r]) + 1]_vars

\* A POST /generate request that passed its checks waited twice for the
\* backend and ended with the image.
C21_Witness ==
  \E r \in Reqs :
    /\ OnGenerate(r) /\ invoked[r] = 1 /\ pc[r] = "done"
    /\ Len(calls[r]) = 2 /\ Len(answer[r]) = 2
    /\ resp[r].status = 200 /\ resp[r].url = "https://x/y.png"

(***************************************************************************)
(* resetVideo against the work still in flight.                            *)
(***************************************************************************)
\* The state resetVideo left is still shown: no generateVideo call since.
ShowsReset == videoState = Idle /\ used.resets > 0

\* C24 as stated: after resetVideo the state stays idle until the next
\* generateVideo call; no status response and no generation result that
\* was in flight at the reset changes it.
C24_ResetStaysIdle ==
  [][(ShowsReset /\ videoState' # videoState) => used'.generations = used.generations + 1]_vars

(***************************************************************************)
(* How polling ends.                                                       *)
(***************************************************************************)
Polling == videoState.status = "polling"

\* A step of the hook that is no call of generateVideo or resetVideo.
NoUserCall == used'.generations = used.generations /\ used'.resets = used.resets

\* The interval the effect set for the state shown.
PollLoops == {i \in intervals : i.taskId = videoState.taskId /\ i.token = videoState.token}

\* C25: with timers that fire and an endpoint that reports the end of the
\* task, a polling state does not last: it becomes success or failed unless
\* generateVideo or resetVideo is called first, and an answer that changes
\* the state always makes it success or failed. As long as the answers are
\* not terminal the state stays as it is with its interval set, so that the
\* next tick asks again.
C25_PollingEnds ==
  /\ (Polling /\ used.ticks < MaxTicks) ~> ~Polling
  /\ [][(Polling /\ NoUserCall) =>
          videoState'.status \in {"polling", "success", "failed"}]_vars
  /\ [][(inflight' \subseteq inflight /\ inflight' # inflight /\ videoState' # videoState) =>
          videoState'.status \in {"success", "failed"}]_vars
  /\ [](Polling => PollLoops # {})
  /\ [][(Polling /\ videoState' = videoState) => PollLoops' = PollLoops]_vars

\* Two status requests were answered, the first with a status that is not
\* terminal, and the second answer ended the polling of task1.
C25_Witness ==
  /\ videoState.status = "success" /\ videoState.videoUrl = "https://v/task1.mp4"
  /\ used.ticks = 2 /\ used.generations = 1 /\ used.resets = 0
  /\ inflight = {} /\ intervals = {}

(***************************************************************************)
(* updateFlowSession against deleteFlowSession.                            *)
(***************************************************************************)
\* deleteFlowSession(id) has completed and no put of saveFlowSession for the
\* id ran after it.
Deleted(id) ==
  \E k \in DOMAIN flowLog :
    /\ flowLog[k].request = "delete" /\ flowLog[k].id = id
    /\ \A j \in (k + 1)..Len(flowLog) :
         ~(flowLog[j].request = "put" /\ flowLog[j].id = id
           /\ flowLog[j].fn = "saveFlowSession")

\* C26 as stated: updateFlowSession never adds a session to the store; a
\* session whose deleteFlowSession has completed stays absent, whatever
\* updateFlowSession calls were running, until createFlowSession or
\* saveFlowSession stores it again.
C26_UpdateNeverAdds ==
  /\ [](\A id \in FlowIds : Deleted(id) => sessions[id] = NoSession)
  /\ [][\A id \in FlowIds :
          (sessions[id] = NoSession /\ sessions'[id] # NoSession) =>
            Head(flowQueue).fn = "saveFlowSession"]_vars

====
